---------------------------- MODULE Spec2Model ----------------------------
(***************************************************************************)
(* A model of the GoStop test agent (tests/test_agent): the TestAgent      *)
(* session, transport and scenario runner of main.py, and the AIPlayer     *)
(* polling loop with its validators of ai_player.py.                       *)
(*                                                                         *)
(*   Spec             TestAgent.run_tests driving scenario procedures      *)
(*   SpecPlayer       AIPlayer.run_continuous_simulation                   *)
(*   SpecSession      start_app, stop_app and _send_command called in any  *)
(*                    order, a send being a write and then a read          *)
(*   SpecSessionFair  SpecSession with the agent's own steps weakly fair   *)
(*   SpecValidators   one call of a validator, of select_best_card or of   *)
(*                    the three monthly audits on one snapshot             *)
(*   SpecFullGame     the always-Go full-game scenario in one session      *)
(*   SpecMonitor      UXMonitor.run of ai_ux_player_monitor.py             *)
(*                                                                         *)
(* The engine under test is an external program: every reply it gives,     *)
(* every transport failure, every file-system failure and the operator's   *)
(* key presses are nondeterministic inputs drawn from small sets.          *)
(***************************************************************************)
EXTENDS Integers, Sequences, FiniteSets, TLC

VARIABLES
    \* ---- TestAgent fields (main.py 55-63)
    connection_mode,        \* "cli" | "socket"
    app_executable_path,    \* "None" | "exe"
    rng_seed,               \* NoSeed (None) or a seed
    process,                \* "None" | "Popen": the owned process handle
    action_log,             \* sequence of commands
    last_state,             \* EmptyDict or the last ok get_state response
    results,                \* sequence of <<iteration, name, status, message>>
    \* ---- the environment of the agent
    app,                    \* the spawned program: "none" | "alive" | "exited"
    now,                    \* time.time() in milliseconds
    crash_files,            \* crash_dumps directory: file name -> crash_data
    repro,                  \* content of repro_file: NoFile or {seed, sequence}
    \* ---- run_tests control state
    pc,                     \* position inside run_tests
    scenarios,              \* argument of run_tests: the procedures' names
    repeat_count,           \* argument of run_tests
    iteration, idx,         \* the loop variables (1-based)
    exc,                    \* the exception caught by `except Exception`
    propagating,            \* the exception leaving through `finally`
    steps,                  \* commands the running scenario has issued
    \* ---- history variables (what happened, for stating the claims)
    sent,                   \* commands handed to _send_command this session
    session_open,           \* start_app attempted and stop_app not yet run
    interrupted,            \* the operator pressed Ctrl-C
    pairs,                  \* per (iteration, scenario): how its try block went
    crash,                  \* what the last handle_crash did
    \* ---- AIPlayer fields and loop state (ai_player.py 13-18, 338)
    debug_level,            \* "normal" | "high"
    paused,
    state_history,          \* sequence of recorded snapshots
    games_completed,
    num_games,              \* argument of run_continuous_simulation
    error_report,           \* error_report.log: the reported error lists
    ai_pc,                  \* "loop" | "returned" | "exited" | "off"
    iterations,             \* passes of the loop so far
    iter,                   \* what the last pass of the loop did
    \* ---- a caller of the session methods, and the programs it started
    children,               \* every process Popen has started, by number
    owned,                  \* the process self.process refers to (0: none)
    call,                   \* the last method call and where it stands
    wire,                   \* commands written, outcome not yet observed
    writes,                 \* how many commands have been written
    observed,               \* the written commands whose outcome was seen
    calls,                  \* method calls made so far
    sockets,                \* every socket a send has created, in order
    \* ---- one call of a validator or of select_best_card on its own
    given,                  \* the arguments of the call
    result,                 \* the function called and what it returned
    \* ---- the locals of scenario_verify_card_integrity_full_game
    full_game,
    \* ---- the engine: the game sessions it has ended, the script it follows
    engine,
    \* ---- UXMonitor (ai_ux_player_monitor.py): its fields and what it did
    monitor

agent_vars  == <<connection_mode, app_executable_path, rng_seed, process,
                 action_log, last_state, results>>
env_vars    == <<app, now, crash_files, repro>>
runner_vars == <<pc, scenarios, repeat_count, iteration, idx, exc, propagating,
                 steps>>
hist_vars   == <<sent, session_open, interrupted, pairs, crash>>
player_vars == <<debug_level, paused, state_history, games_completed,
                 num_games, error_report, ai_pc, iterations, iter>>
session_vars == <<children, owned, call, wire, writes, observed, calls,
                  sockets>>
probe_vars  == <<given, result, full_game, engine>>
ux_vars     == <<monitor>>
vars == <<agent_vars, env_vars, runner_vars, hist_vars, player_vars,
          session_vars, probe_vars, ux_vars>>

---------------------------------------------------------------------------
\* Bounds of the model
MaxCalls   == 3     \* method calls a caller of the session methods makes
MaxSteps   == 1     \* commands one scenario procedure issues
MaxIterations == 2  \* passes of the player's loop
MaxGames   == 2     \* largest finite num_games tried

\* Program constants
NumMonths     == 12
CardsPerMonth == 4
TotalCards    == 48

NoSeed == -1        \* rng_seed = None
Seeds  == {NoSeed, 7}

\* run_tests(scenarios, repeat_count = 1): the repeat count of the signature
\* (main.py 218) and of the only caller (test_scenarios.py 3550).
RepeatCount == 1

\* The scenario lists handed to run_tests, by __name__: two procedures, or
\* one procedure selected twice (test_scenarios.py 3531-3538).
ScenarioLists == { <<"scenario_a", "scenario_b">>, <<"scenario_a", "scenario_a">> }

---------------------------------------------------------------------------
\* Cards and state snapshots (the engine's get_state response)

\* A card as the engine sends it: the _location key is absent ("None")
\* until a validator writes it.
Card(i, m) == [id |-> i, month |-> m, type |-> "junk", _location |-> "None"]

\* The 48 cards of a full deck: ids 1..48, four per month.
FullDeck == [i \in 1..TotalCards |-> Card(i, ((i - 1) \div CardsPerMonth) + 1)]

Player(nm, hand, captured) ==
    [name |-> nm, hand |-> hand, capturedCards |-> captured,
     score |-> 0, scoreItems |-> <<>>]

\* A response with every field the agent reads; an absent JSON field is
\* modelled by the default that the code's .get(...) supplies. A pending
\* card field holds no card (<<>>) or one card.
BaseState ==
    [status |-> "ok", gameState |-> "ready", currentTurnIndex |-> 0,
     players |-> <<>>, tableCards |-> <<>>, outOfPlayCards |-> <<>>,
     deckCards |-> <<>>, pendingAutomationDelays |-> 0,
     pendingCaptureOptions |-> <<>>, pendingShakeMonths |-> <<>>,
     pendingCapturePlayedCard |-> <<>>, pendingCaptureDrawnCard |-> <<>>,
     pendingChrysanthemumCard |-> <<>>]

EmptyDict == [BaseState EXCEPT !.status = "None", !.gameState = "None"]
ErrReply  == [BaseState EXCEPT !.status = "error", !.gameState = "None"]

\* A dealt game: two cards in each hand, two on the table, the rest in the deck.
Dealt(gs) ==
    [BaseState EXCEPT
        !.gameState = gs,
        !.players = << Player("P1", SubSeq(FullDeck, 1, 2), <<>>),
                       Player("P2", SubSeq(FullDeck, 3, 4), <<>>) >>,
        !.tableCards = SubSeq(FullDeck, 5, 6),
        !.deckCards = SubSeq(FullDeck, 7, TotalCards)]

SnapReady   == BaseState
SnapPlaying == Dealt("playing")

---------------------------------------------------------------------------
\* Commands (main.py 181-216)

\* A command is {action, data}; the data object is modelled as its list of
\* keys and values, empty when the command carries no data.
GetState == [action |-> "get_state", data |-> <<>>]

\* set_condition(condition_data)
SetCondition(d) == [action |-> "set_condition", data |-> d]

\* send_user_action(action_type, action_data): the data key is present only
\* for a truthy action_data.
UserAction(t, d) == [action |-> t, data |-> d]

\* main.py 235: set_condition({"rng_seed": self.rng_seed})
SetSeedCommand == SetCondition(<<"rng_seed", ToString(rng_seed)>>)

\* What a scenario procedure may send through the three public methods.
ScenarioCommands ==
    {GetState, SetCondition(<<"mock_scenario", "game_over">>),
     UserAction("click_restart_button", <<>>)}

---------------------------------------------------------------------------
\* Transport (main.py 102-179)

\* What the engine may answer to a scenario of run_tests.
RunnerReplies == {SnapReady, SnapPlaying, ErrReply}

Reply(r)  == [kind |-> "reply", resp |-> r]
Failure(k) == [kind |-> k, resp |-> EmptyDict]

\* Every way one _send_command call can go, given the transport's state.
\*   cli:    no process handle -> "not_running" (111-112); the program has
\*           exited -> the write to its closed pipe fails (115-116);
\*           otherwise a reply line, an unparsable line (139-140), or the
\*           program dies now and readline returns "" (120-123).
\*   socket: connect refused or timed out, empty read (165-166), an
\*           unparsable line, or a reply; all failures become one RuntimeError.
TransportOutcomes(replies) ==
    IF connection_mode = "cli"
    THEN IF process = "None" THEN {Failure("not_running")}
         ELSE IF app # "alive" THEN {Failure("broken_pipe")}
         ELSE {Reply(r) : r \in replies} \cup {Failure("closed"), Failure("malformed")}
    ELSE {Reply(r) : r \in replies}
            \cup {Failure("refused"), Failure("empty"), Failure("malformed")}

\* The RuntimeError message of a failed send; "none" when it returns.
RaisedBy(out) ==
    CASE out.kind = "reply"       -> "none"
      [] out.kind = "not_running" -> "App is not running."
      [] out.kind = "closed"      -> "App closed unexpectedly."
      [] out.kind = "broken_pipe" -> "BrokenPipeError"
      [] out.kind = "malformed" /\ connection_mode = "cli"
                                  -> "Failed to parse JSON response"
      [] OTHER                    -> "Socket communication failed"

\* Faulty variant of LogAfter: the get_state filter is dropped.
LogAfterAll(log, command) == Append(log, command)

\* main.py 107-108: every command but get_state is appended, before the
\* transport is touched.
LogAfter(log, command) ==
    IF command.action # "get_state" THEN Append(log, command) ELSE log

\* Faulty variant of CacheAfter: every ok reply is cached.
CacheAfterAnyOk(cache, command, out) ==
    IF out.kind = "reply" /\ out.resp.status = "ok" THEN out.resp ELSE cache

\* main.py 130-131, 171-172: an ok reply to get_state becomes the cache.
CacheAfter(cache, command, out) ==
    IF out.kind = "reply" /\ command.action = "get_state" /\ out.resp.status = "ok"
    THEN out.resp ELSE cache

\* The spawned program after a send: a "closed" read means it has exited.
AppAfter(out) == IF out.kind = "closed" /\ app = "alive" THEN "exited" ELSE app

\* _send_command(command) with transport outcome out: the agent's fields
\* after the call, and what the call returned or raised.
SendCommand(command, out) ==
    [log    |-> LogAfter(action_log, command),
     cache  |-> CacheAfter(last_state, command, out),
     resp   |-> out.resp,
     raised |-> RaisedBy(out)]

---------------------------------------------------------------------------
\* Session supervisor (main.py 66-100)

\* The repro file before its first write (a written one never has an empty
\* sequence).
NoFile == [seed |-> NoSeed, sequence |-> <<>>]

\* _save_repro_steps: writes {seed, sequence} to the one repro_file of the
\* process (main.py 22), only when the log is non-empty.
ReproContent(log) == [seed |-> rng_seed, sequence |-> log]
SaveReproSteps(file, log) == IF log # <<>> THEN ReproContent(log) ELSE file

\* Faulty variant of ResetLog: start_app keeps the log of the last session.
ResetLogKeeps(log) == log

\* start_app (68): self.action_log = []
ResetLog(log) == <<>>

\* Faulty variant of StopAppProcess: the handle is kept after the wait.
StopAppKeepsHandle(p) == p

\* stop_app (88-94): terminate and wait for an owned process, drop the handle.
StopAppProcess(p) == "None"
StopAppProgram(p, a) == IF p # "None" THEN "none" ELSE a

---------------------------------------------------------------------------
\* Scenario runner: TestAgent.run_tests (main.py 218-255) and
\* TestAgent.handle_crash (266-317)

\* What one pass of the player's loop did: the branch it took, the snapshot
\* it polled, the validators it ran, the game commands it sent, the
\* exception its except clause caught and the retry sleep it ended with
\* (milliseconds; 0 when it took none); and whether check_pause read a line
\* of operator input at its head.
NoIteration == [phase |-> "none", polled |-> EmptyDict, validated |-> {},
                commands |-> <<>>, error |-> "none", backoff |-> 0,
                toggled |-> FALSE]

\* The player's variables are not touched by run_tests.
PlayerIdle ==
    /\ debug_level = "normal" /\ paused = FALSE /\ state_history = <<>>
    /\ games_completed = 0 /\ num_games = 0 /\ error_report = <<>>
    /\ ai_pc = "off" /\ iterations = 0 /\ iter = NoIteration

NoCrash == [ran |-> FALSE, written |-> 0, state |-> EmptyDict,
            source |-> "none", repro_saved |-> FALSE]

\* No method has been called from outside run_tests and the player's loop.
NoAnswer == [kind |-> "none", resp |-> EmptyDict]
NoCall == [method |-> "none", at |-> "idle", command |-> GetState,
           raised |-> "none", resp |-> EmptyDict, before |-> "none"]
SessionIdle ==
    /\ children = <<>> /\ owned = 0 /\ call = NoCall /\ wire = <<>>
    /\ writes = 0 /\ observed = <<>> /\ calls = 0 /\ sockets = <<>>

\* No validator has been called on its own and the full-game scenario is
\* not running.
NoViolation == [kind |-> "none", month |-> 0, count |-> 0]
NoGiven  == [state |-> EmptyDict, hand |-> <<>>, table_cards |-> <<>>]
NoResult == [fn |-> "none", duplicates |-> <<>>, violation |-> NoViolation,
             errors |-> <<>>, card |-> <<>>, accepts |-> <<>>]
NoFullGame == [at |-> "off", step_count |-> 0, polled |-> EmptyDict]
\* The engine has ended no game session and is not showing an ended one.
NoEngine == [sessions_ended |-> 0, at_end |-> FALSE, script |-> "none"]
\* UXMonitor is not running.
NoMonitor == [at |-> "off"]
ProbeIdle ==
    /\ monitor = NoMonitor
    /\ given = NoGiven /\ result = NoResult /\ full_game = NoFullGame
    /\ engine = NoEngine

Init ==
    /\ connection_mode \in {"cli", "socket"}
    /\ app_executable_path \in
          IF connection_mode = "cli" THEN {"None", "exe"} ELSE {"None"}
    /\ rng_seed \in Seeds
    /\ process = "None"
    /\ action_log = <<>>
    /\ last_state = EmptyDict
    /\ results = <<>>
    /\ app = "none" /\ now = 0 /\ crash_files = <<>> /\ repro = NoFile
    /\ pc = "loop" /\ scenarios \in ScenarioLists /\ repeat_count = RepeatCount
    /\ iteration = 1 /\ idx = 1
    /\ exc = "none" /\ propagating = "none" /\ steps = 0
    /\ sent = <<>> /\ session_open = FALSE /\ interrupted = FALSE
    /\ pairs = <<>> /\ crash = NoCrash
    /\ PlayerIdle
    /\ SessionIdle
    /\ ProbeIdle

scenario_name == scenarios[idx]

\* How the try block of the current pair ended: whether scenario_func ran
\* and how it ended, and the exception (if any) that left the try block.
TryEnded(body, error) ==
    Append(pairs, [iteration |-> iteration, name |-> scenario_name,
                   body |-> body, error |-> error])

\* Faulty variant of FailEntry: the exception's message is not recorded.
FailEntryNoMessage(it, name, e) == <<it, name, "FAIL", "Failure">>

\* main.py 243: the entry recorded on the normal path.
PassEntry(it, name) == <<it, name, "PASS", "Success">>
\* main.py 249: the entry recorded after handle_crash, with str(e).
FailEntry(it, name, e) == <<it, name, "FAIL", e>>

\* An exception raised in the try block at main.py 230-243 is caught at 244.
Caught(e, body) ==
    /\ pc' = "except" /\ exc' = e
    /\ pairs' = TryEnded(body, e)

\* start_app (66-86), the first statement of the try block.
StartApp ==
    /\ pc = "loop"
    /\ action_log' = ResetLog(action_log)
    /\ last_state' = EmptyDict
    /\ sent' = <<>>
    /\ session_open' = TRUE
    /\ crash' = NoCrash
    /\ steps' = 0
    /\ IF connection_mode = "cli"
       THEN IF app_executable_path = "None"
            THEN /\ Caught("app_executable_path is required", "not_run")
                 /\ UNCHANGED <<process, app, now>>
            ELSE \E spawned \in BOOLEAN :
                   IF spawned
                   THEN /\ process' = "Popen" /\ app' = "alive"
                        /\ now' = now + 1           \* time.sleep(1)
                        /\ pc' = "seed"
                        /\ UNCHANGED <<exc, pairs>>
                   ELSE /\ Caught("Popen failed", "not_run")
                        /\ UNCHANGED <<process, app, now>>
       ELSE /\ pc' = "seed"
            /\ \E dt \in {0, 1} : now' = now + dt
            /\ UNCHANGED <<process, app, exc, pairs>>
    /\ UNCHANGED <<connection_mode, app_executable_path, rng_seed, results,
                   crash_files, repro, scenarios, repeat_count, iteration, idx,
                   propagating, interrupted, player_vars, session_vars,
                   probe_vars, ux_vars>>

\* Faulty variant of SeedConfigured: the seed is never forwarded.
SeedConfiguredNever(seed) == FALSE

\* main.py 234: `self.rng_seed is not None`
SeedConfigured(seed) == seed # NoSeed

\* main.py 234-235: the set-seed command, when a seed is configured.
SetSeed ==
    /\ pc = "seed"
    /\ IF SeedConfigured(rng_seed)
       THEN \E out \in TransportOutcomes(RunnerReplies) :
              LET r == SendCommand(SetSeedCommand, out) IN
              /\ action_log' = r.log
              /\ last_state' = r.cache
              /\ sent' = Append(sent, SetSeedCommand)
              /\ app' = AppAfter(out)
              /\ IF r.raised = "none"
                 THEN pc' = "body" /\ UNCHANGED <<exc, pairs>>
                 ELSE Caught(r.raised, "not_run")
       ELSE /\ pc' = "body"
            /\ UNCHANGED <<action_log, last_state, sent, app, exc, pairs>>
    /\ UNCHANGED <<connection_mode, app_executable_path, rng_seed, process,
                   results, now, crash_files, repro, scenarios, repeat_count, iteration,
                   idx, propagating, steps, session_open, interrupted, crash,
                   player_vars, session_vars,
                   probe_vars, ux_vars>>

\* scenario_func(self), one call of a public method: the exception of a
\* failed send either leaves the scenario or is handled inside it
\* (test_scenarios.py 61-70).
ScenarioSend ==
    /\ pc = "body" /\ steps < MaxSteps
    /\ \E command \in ScenarioCommands, out \in TransportOutcomes(RunnerReplies) :
         LET r == SendCommand(command, out) IN
         /\ action_log' = r.log
         /\ last_state' = r.cache
         /\ sent' = Append(sent, command)
         /\ app' = AppAfter(out)
         /\ steps' = steps + 1
         /\ \/ /\ r.raised # "none"
               /\ Caught(r.raised, "raised")
            \/ /\ UNCHANGED <<pc, exc, pairs>>
    /\ UNCHANGED <<connection_mode, app_executable_path, rng_seed, process,
                   results, now, crash_files, repro, scenarios, repeat_count, iteration,
                   idx, propagating, session_open, interrupted, crash,
                   player_vars, session_vars,
                   probe_vars, ux_vars>>

\* scenario_func returns normally.
ScenarioReturn ==
    /\ pc = "body"
    /\ pc' = "save"
    /\ UNCHANGED <<agent_vars, env_vars, scenarios, repeat_count, iteration, idx, exc,
                   propagating, steps, hist_vars, player_vars, session_vars,
                   probe_vars, ux_vars>>

\* scenario_func raises on its own (a failed assert).
ScenarioRaise ==
    /\ pc = "body"
    /\ Caught("AssertionError", "raised")
    /\ UNCHANGED <<agent_vars, env_vars, scenarios, repeat_count, iteration, idx,
                   propagating, steps, sent, session_open, interrupted, crash,
                   player_vars, session_vars,
                   probe_vars, ux_vars>>

\* main.py 241-243: save the repro steps, then record PASS.
SaveAndPass ==
    /\ pc = "save"
    /\ \E written \in BOOLEAN :
         IF written \/ action_log = <<>>
         THEN /\ repro' = SaveReproSteps(repro, action_log)
              /\ results' = Append(results, PassEntry(iteration, scenario_name))
              /\ pairs' = TryEnded("returned", "none")
              /\ pc' = "finally"
              /\ UNCHANGED exc
         ELSE /\ Caught("OSError", "returned")          \* open() failed
              /\ UNCHANGED <<repro, results>>
    /\ UNCHANGED <<connection_mode, app_executable_path, rng_seed, process,
                   action_log, last_state, app, now, crash_files,
                   scenarios, repeat_count, iteration, idx, propagating, steps, sent,
                   session_open, interrupted, crash, player_vars, session_vars,
                   probe_vars, ux_vars>>

\* handle_crash, main.py 299-306: the state field of the crash report.
NoStateCached == [EmptyDict EXCEPT !.status = "No state cached. Error"]

\* Faulty variant of CrashState: the cached state is forgotten.
CrashStateNoCache(fetched, resp, cache) ==
    IF fetched THEN resp ELSE NoStateCached

CrashState(fetched, resp, cache) ==
    IF fetched THEN resp
    ELSE IF cache # EmptyDict THEN cache ELSE NoStateCached

CrashSource(fetched, cache) ==
    IF fetched THEN "fresh" ELSE IF cache # EmptyDict THEN "cached" ELSE "none"

\* main.py 309-310: crash_<context>_<int(time.time()*1000)>.json
CrashFileName(context, t) == <<context, t>>

\* main.py 312-313: open(name, 'w') creates the file or replaces its content.
WriteFile(dir, name, data) ==
    [n \in DOMAIN dir \cup {name} |-> IF n = name THEN data ELSE dir[n]]

\* main.py 248-249: handle_crash(e, scenario_name), then the FAIL entry.
\* An OSError of either file write leaves handle_crash and the except clause.
HandleCrash ==
    /\ pc = "except"
    /\ \E out \in TransportOutcomes(RunnerReplies),
          crash_written \in BOOLEAN, repro_written \in BOOLEAN :
         LET r       == SendCommand(GetState, out)
             fetched == r.raised = "none"
             state   == CrashState(fetched, r.resp, last_state)
             data    == [context |-> scenario_name, error_message |-> exc,
                         last_known_state |-> state]
             name    == CrashFileName(scenario_name, now)
             saved   == crash_written /\ (repro_written \/ r.log = <<>>)
         IN
         /\ action_log' = r.log
         /\ last_state' = r.cache
         /\ sent' = Append(sent, GetState)
         /\ app' = AppAfter(out)
         /\ crash_files' = IF crash_written THEN WriteFile(crash_files, name, data)
                           ELSE crash_files
         /\ repro' = IF saved THEN SaveReproSteps(repro, r.log) ELSE repro
         /\ results' = IF saved
                       THEN Append(results, FailEntry(iteration, scenario_name, exc))
                       ELSE results
         /\ propagating' = IF saved THEN "none" ELSE "OSError"
         /\ crash' = [ran |-> TRUE,
                      written |-> IF crash_written THEN 1 ELSE 0,
                      state |-> state,
                      source |-> CrashSource(fetched, last_state),
                      repro_saved |-> saved /\ r.log # <<>>]
    /\ pc' = "finally"
    /\ UNCHANGED <<connection_mode, app_executable_path, rng_seed, process,
                   now, scenarios, repeat_count, iteration, idx, exc, steps,
                   session_open, interrupted, pairs, player_vars, session_vars,
                   probe_vars, ux_vars>>

\* stop_app (88-94)
StopApp ==
    /\ process' = StopAppProcess(process)
    /\ app' = StopAppProgram(process, app)
    /\ session_open' = FALSE

\* Faulty variant of FinallyClause: stop_app only at the end of the try block.
FinallyClauseOnSuccess ==
    IF propagating = "none" THEN StopApp
    ELSE UNCHANGED <<process, app, session_open>>

\* main.py 250-251: `finally: self.stop_app()`, whatever left the try block.
FinallyClause == StopApp

\* The finally clause, then the exception goes on or the loops advance
\* (224, 226).
Finally ==
    /\ pc = "finally"
    /\ FinallyClause
    /\ IF propagating # "none"
       THEN pc' = "left" /\ UNCHANGED <<iteration, idx>>
       ELSE IF idx < Len(scenarios)
       THEN pc' = "loop" /\ idx' = idx + 1 /\ UNCHANGED iteration
       ELSE IF iteration < repeat_count
       THEN pc' = "loop" /\ idx' = 1 /\ iteration' = iteration + 1
       ELSE pc' = "summary" /\ UNCHANGED <<iteration, idx>>
    /\ exc' = "none"                 \* `e` is unbound when the except clause ends
    /\ UNCHANGED <<connection_mode, app_executable_path, rng_seed, action_log,
                   last_state, results, now, crash_files, repro, scenarios,
                   repeat_count, propagating, steps, sent, interrupted, pairs, crash,
                   player_vars, session_vars,
                   probe_vars, ux_vars>>

\* main.py 255: print_summary, and run_tests returns.
PrintSummary ==
    /\ pc = "summary"
    /\ pc' = "returned"
    /\ UNCHANGED <<agent_vars, env_vars, scenarios, repeat_count, iteration, idx, exc,
                   propagating, steps, hist_vars, player_vars, session_vars,
                   probe_vars, ux_vars>>

\* The operator's Ctrl-C: KeyboardInterrupt is no Exception, so the except
\* clause (244) is skipped and only the finally clause runs.  Inside the try
\* statement it can arrive after start_app, in the scenario, before the repro
\* save, or in the except clause.
InterruptInTry ==
    /\ pc \in {"seed", "body", "save", "except"}
    /\ pc' = "finally"
    /\ propagating' = "KeyboardInterrupt"
    /\ interrupted' = TRUE
    /\ UNCHANGED <<agent_vars, env_vars, scenarios, repeat_count, iteration, idx, exc,
                   steps, sent, session_open, pairs, crash, player_vars, session_vars,
                   probe_vars, ux_vars>>

\* Ctrl-C between two pairs (225-228): no session is open.
InterruptBetween ==
    /\ pc = "loop"
    /\ pc' = "left"
    /\ propagating' = "KeyboardInterrupt"
    /\ interrupted' = TRUE
    /\ UNCHANGED <<agent_vars, env_vars, scenarios, repeat_count, iteration, idx, exc,
                   steps, sent, session_open, pairs, crash, player_vars, session_vars,
                   probe_vars, ux_vars>>

Next ==
    \/ StartApp
    \/ SetSeed
    \/ ScenarioSend
    \/ ScenarioReturn
    \/ ScenarioRaise
    \/ SaveAndPass
    \/ HandleCrash
    \/ Finally
    \/ PrintSummary
    \/ InterruptInTry
    \/ InterruptBetween

Spec == Init /\ [][Next]_vars

---------------------------------------------------------------------------
\* The validators of the player (ai_player.py 27-170)

Range(f) == { f[i] : i \in DOMAIN f }

\* add_cards(cards, location) of check_duplicate_cards: writes the zone label
\* into every card and collects the cards.
add_cards(cards, location) ==
    [i \in 1..Len(cards) |-> [cards[i] EXCEPT !._location = location]]

RECURSIVE AnnotatePlayers(_)
AnnotatePlayers(ps) ==
    IF ps = <<>> THEN <<>>
    ELSE << [Head(ps) EXCEPT
               !.hand = add_cards(@, Head(ps).name \o "_Hand"),
               !.capturedCards = add_cards(@, Head(ps).name \o "_Captured")] >>
         \o AnnotatePlayers(Tail(ps))

\* The snapshot object after check_duplicate_cards has walked it: the zone
\* lists hold the same card objects that were labelled (lines 31-52); the
\* pendingCapture* fields are not walked.
Annotated(state) ==
    [state EXCEPT !.tableCards = add_cards(@, "Table"),
                  !.outOfPlayCards = add_cards(@, "OutOfPlay"),
                  !.deckCards = add_cards(@, "Deck"),
                  !.players = AnnotatePlayers(@)]

RECURSIVE PlayerCards(_)
PlayerCards(ps) ==
    IF ps = <<>> THEN <<>>
    ELSE Head(ps).hand \o Head(ps).capturedCards \o PlayerCards(Tail(ps))

\* all_cards, in the order the zones are walked.
AllCards(state) ==
    state.tableCards \o state.outOfPlayCards \o state.deckCards
        \o PlayerCards(state.players)

DupMsg(c, first) ==
    [id |-> c.id, month |-> c.month, type |-> c.type,
     found_in |-> c._location, and_in |-> first._location]

\* Lines 54-65: the scan with seen_ids; a falsy id is passed over.
RECURSIVE DupScan(_, _, _, _)
DupScan(cs, i, seen, duplicates) ==
    IF i > Len(cs) THEN duplicates
    ELSE LET c == cs[i]
             hits == { j \in 1..Len(seen) : seen[j].id = c.id }
         IN  IF c.id = 0 THEN DupScan(cs, i + 1, seen, duplicates)
             ELSE IF hits # {}
                  THEN LET dup_msg == DupMsg(c, seen[CHOOSE j \in hits : TRUE])
                       IN  DupScan(cs, i + 1, seen,
                                   IF dup_msg \in Range(duplicates)
                                   THEN duplicates
                                   ELSE Append(duplicates, dup_msg))
                  ELSE DupScan(cs, i + 1, Append(seen, c), duplicates)

\* Faulty variant of check_duplicate_cards: the pending card fields are
\* walked after the zones.
check_duplicate_walks_pending(state) ==
    DupScan(AllCards(Annotated(state))
               \o add_cards(state.pendingCapturePlayedCard, "PendingCapture")
               \o add_cards(state.pendingCaptureDrawnCard, "PendingCapture")
               \o add_cards(state.pendingChrysanthemumCard, "PendingChrysanthemum"),
            1, <<>>, <<>>)

\* check_duplicate_cards(state): the list of duplicate messages it builds
\* (and reports when it is not empty).
check_duplicate_cards(state) == DupScan(AllCards(Annotated(state)), 1, <<>>, <<>>)

MonthCount(cs, m) == Cardinality({ i \in 1..Len(cs) : cs[i].month = m })

\* Faulty variant of validate_monthly_pair_integrity: returns before counting.
validate_monthly_returns_early(state) == NoViolation

\* Faulty variant of validate_monthly_pair_integrity: the pending card
\* fields are counted with the zones.
validate_monthly_counts_pending(state) ==
    IF state.gameState \in {"ready", "None"} THEN NoViolation
    ELSE LET cs == AllCards(state) \o state.pendingCapturePlayedCard
                      \o state.pendingCaptureDrawnCard
                      \o state.pendingChrysanthemumCard
             bad == { m \in 1..NumMonths : MonthCount(cs, m) # CardsPerMonth }
         IN  IF bad # {}
             THEN [kind |-> "month", month |-> CHOOSE k \in bad : TRUE,
                   count |-> 0]
             ELSE NoViolation

\* validate_monthly_pair_integrity(state): NoViolation when it returns, else
\* the ValueError it raises. A missing gameState reads as "ready" (line 73).
validate_monthly_pair_integrity(state) ==
    IF state.gameState \in {"ready", "None"} THEN NoViolation
    ELSE LET cs == AllCards(state)
             bad == { m \in 1..NumMonths : MonthCount(cs, m) # CardsPerMonth }
             base_cards_count ==
                 Cardinality({ i \in 1..Len(cs) : cs[i].month # 0 })
         IN  IF bad # {}
             THEN LET m == CHOOSE k \in bad : \A j \in bad : k <= j
                  IN  [kind |-> "month", month |-> m, count |-> MonthCount(cs, m)]
             ELSE IF base_cards_count # TotalCards
                  THEN [kind |-> "total", month |-> 0, count |-> base_cards_count]
                  ELSE NoViolation

\* Faulty variant of ItemPoints: only the "points" key is read.
ItemPointsOnly(item) == item.points

\* Line 128: item.get("points") or item.get("score") or 0
ItemPoints(item) ==
    IF item.points # 0 THEN item.points ELSE item.score

RECURSIVE SumItems(_)
SumItems(items) ==
    IF items = <<>> THEN 0 ELSE ItemPoints(Head(items)) + SumItems(Tail(items))

ScoreMsg(p_idx, player) ==
    [player |-> p_idx, name |-> player.name, reported |-> player.score,
     calculated |-> SumItems(player.scoreItems)]

\* validate_game_results(): the errors list over the last recorded snapshot
\* (rule 1; rules 2 and 3 only log warnings).
RECURSIVE ScoreErrors(_, _)
ScoreErrors(players, i) ==
    IF i > Len(players) THEN <<>>
    ELSE (IF players[i].score # SumItems(players[i].scoreItems)
          THEN << ScoreMsg(i - 1, players[i]) >> ELSE <<>>)
         \o ScoreErrors(players, i + 1)

validate_game_results(history) ==
    IF history = <<>> THEN <<>>
    ELSE ScoreErrors(history[Len(history)].players, 1)

\* Faulty variant of select_best_card: a placeholder is preferred to a
\* card matching the table.
select_best_card_dummy_first(hand, table_cards) ==
    LET dummies == { i \in 1..Len(hand) : hand[i].month = 0 }
    IN  IF dummies # {} THEN hand[CHOOSE i \in dummies : \A j \in dummies : i <= j]
        ELSE hand[1]

\* select_best_card(hand, table_cards) for a non-empty hand.
select_best_card(hand, table_cards) ==
    LET table_months == { table_cards[i].month : i \in 1..Len(table_cards) }
        matches == { i \in 1..Len(hand) :
                        hand[i].month # 0 /\ hand[i].month \in table_months }
        dummies == { i \in 1..Len(hand) : hand[i].month = 0 }
        First(S) == CHOOSE i \in S : \A j \in S : i <= j
    IN  IF matches # {} THEN hand[First(matches)]
        ELSE IF dummies # {} THEN hand[First(dummies)]
        ELSE hand[1]

CountType(cs, t) == Cardinality({ i \in 1..Len(cs) : cs[i].type = t })

\* decide_chrysanthemum_role(state)
decide_chrysanthemum_role(state) ==
    IF state.currentTurnIndex >= Len(state.players) THEN "animal"
    ELSE LET captured == state.players[state.currentTurnIndex + 1].capturedCards
             pi_count == CountType(captured, "junk")
                            + 2 * CountType(captured, "doubleJunk")
         IN  IF pi_count < 10 THEN "doublePi"
             ELSE IF CountType(captured, "animal") >= 4 THEN "animal"
             ELSE "doublePi"

---------------------------------------------------------------------------
\* The snapshots the engine may answer the player with

SnapEmptyHand ==
    [Dealt("playing") EXCEPT
        !.players[1].hand = <<>>,
        !.players[1].capturedCards = SubSeq(FullDeck, 1, 2)]

\* A gameState the dispatch ladder has no branch for.
SnapUnknown == Dealt("dealing")

\* A response without the gameState key.
SnapNoGameState == [BaseState EXCEPT !.gameState = "None"]

\* Card 1 in both hands, card 3 nowhere: month 1 still counts four cards.
SnapDuplicate ==
    [Dealt("playing") EXCEPT !.players[2].hand = << FullDeck[1], FullDeck[4] >>]

\* Card 48 nowhere: month 12 has three cards.
SnapMissingCard ==
    [Dealt("playing") EXCEPT !.deckCards = SubSeq(FullDeck, 7, TotalCards - 1)]

SnapBusy     == [Dealt("playing") EXCEPT !.pendingAutomationDelays = 1]
SnapBusyEnded == [Dealt("ended") EXCEPT !.pendingAutomationDelays = 2]
SnapGoStop   == Dealt("askingGoStop")
SnapCapture  ==
    [Dealt("choosingCapture") EXCEPT !.pendingCaptureOptions = SubSeq(FullDeck, 5, 6)]
SnapCaptureNone == Dealt("choosingCapture")
SnapShake    == [Dealt("askingShake") EXCEPT !.pendingShakeMonths = <<1>>]
SnapChrysanthemum == Dealt("choosingChrysanthemumRole")
SnapEnded    == Dealt("ended")
SnapEndedMismatch ==
    [Dealt("ended") EXCEPT
        !.players[1].score = 3,
        !.players[1].scoreItems = << [points |-> 2, score |-> 0] >>]

PlayerReplies ==
    {SnapReady, SnapPlaying, SnapEmptyHand, SnapUnknown, SnapNoGameState,
     SnapDuplicate, SnapMissingCard, SnapBusy, SnapBusyEnded, SnapGoStop,
     SnapCapture,
     SnapCaptureNone, SnapShake, SnapChrysanthemum, SnapEnded,
     SnapEndedMismatch, ErrReply}

---------------------------------------------------------------------------
\* The dispatch ladder of run_continuous_simulation (ai_player.py 374-477)

BoolStr(b) == IF b THEN "true" ELSE "false"

\* One error list handed to report_error, as appended to error_report.log.
Report(kind, issues) == [kind |-> kind, issues |-> issues]

\* What a branch of the ladder does, in program order: reports written,
\* history reset, at most one command sent; or an exception raised, or the
\* procedure returning.
Branch(phase) ==
    [phase |-> phase, reports |-> <<>>, reset |-> FALSE, commands |-> <<>>,
     raised |-> "none", counted |-> 0, returns |-> FALSE]

\* Faulty variant of OnReady: a new game starts with the set-seed command.
OnReadySeed ==
    [Branch("ready") EXCEPT !.reset = TRUE, !.commands = << SetSeedCommand >>]

\* 385-387
OnReady ==
    [Branch("ready") EXCEPT !.reset = TRUE,
                            !.commands = << UserAction("start_game", <<>>) >>]

\* 404-408: report, then raise ValueError.
OnEmptyHand(current_turn, player) ==
    [Branch("empty_hand") EXCEPT
        !.reports = << Report("empty_hand",
                              << [player |-> current_turn, name |-> player.name] >>) >>,
        !.raised = "INVARIANT VIOLATION"]

\* 389-408
OnPlaying(state) ==
    LET players == state.players
        current_turn == state.currentTurnIndex
    IN  IF players = <<>> THEN Branch("warned")
        ELSE IF current_turn >= Len(players)
        THEN [Branch("index_error") EXCEPT !.raised = "IndexError"]
        ELSE LET player == players[current_turn + 1]
                 card == select_best_card(player.hand, state.tableCards)
             IN  IF player.hand # <<>>
                 THEN [Branch("playing") EXCEPT !.commands =
                         << UserAction("play_card",
                               <<"month", ToString(card.month), "type", card.type>>) >>]
                 ELSE OnEmptyHand(current_turn, player)

\* 410-417: is_go is the coin.
OnGoStop(state, coin) ==
    IF state.currentTurnIndex >= Len(state.players)
    THEN [Branch("index_error") EXCEPT !.raised = "IndexError"]
    ELSE [Branch("askingGoStop") EXCEPT !.commands =
            << UserAction("respond_go_stop", <<"isGo", BoolStr(coin)>>) >>]

\* Faulty variant of OnCapture: the last offered option is chosen.
OnCaptureLast(state) ==
    LET options == state.pendingCaptureOptions
    IN  IF options # <<>>
        THEN [Branch("choosingCapture") EXCEPT !.commands =
                << UserAction("respond_to_capture",
                      <<"id", ToString(options[Len(options)].id)>>) >>]
        ELSE Branch("warned")

\* 419-431
OnCapture(state) ==
    LET options == state.pendingCaptureOptions
    IN  IF options # <<>>
        THEN [Branch("choosingCapture") EXCEPT !.commands =
                << UserAction("respond_to_capture", <<"id", ToString(options[1].id)>>) >>]
        ELSE Branch("warned")

\* 433-443: did_shake is the coin.
OnShake(state, coin) ==
    LET pending == state.pendingShakeMonths
    IN  IF pending # <<>>
        THEN [Branch("askingShake") EXCEPT !.commands =
                << UserAction("respond_to_shake",
                      <<"month", ToString(pending[1]), "didShake", BoolStr(coin)>>) >>]
        ELSE Branch("warned")

\* 445-449
OnChrysanthemum(state) ==
    [Branch("choosingChrysanthemumRole") EXCEPT !.commands =
        << UserAction("respond_to_chrysanthemum_choice",
              <<"role", decide_chrysanthemum_role(state)>>) >>]

\* 451-472: validate, count, return on the target, else restart unless the
\* operator pressed Enter within the one-second window.
OnEnded(history, enter, games) ==
    LET errors  == validate_game_results(history)
        counted == [Branch("ended") EXCEPT
                       !.reports = IF errors # <<>>
                                   THEN << Report("scores", errors) >> ELSE <<>>,
                       !.counted = 1]
    IN  IF num_games > 0 /\ games + 1 >= num_games
        THEN [counted EXCEPT !.phase = "returned", !.returns = TRUE]
        ELSE IF enter THEN counted
        ELSE [counted EXCEPT
                !.reset = TRUE,
                !.commands = << UserAction("click_restart_button", <<>>) >>]

\* Faulty variant of OnUnknownState: the default branch starts a game.
OnUnknownStateStart(game_state) == OnReady

\* 474-475: a warning is logged, nothing else.
OnUnknownState(game_state) == Branch("unknown")

\* The ladder for a snapshot with a gameState.
Ladder(state, history, coin, enter, games) ==
    CASE state.gameState = "ready"           -> OnReady
      [] state.gameState = "playing"         -> OnPlaying(state)
      [] state.gameState = "askingGoStop"    -> OnGoStop(state, coin)
      [] state.gameState = "choosingCapture" -> OnCapture(state)
      [] state.gameState = "askingShake"     -> OnShake(state, coin)
      [] state.gameState = "choosingChrysanthemumRole" -> OnChrysanthemum(state)
      [] state.gameState = "ended"           -> OnEnded(history, enter, games)
      [] OTHER                               -> OnUnknownState(state.gameState)

---------------------------------------------------------------------------
\* AIPlayer.run_continuous_simulation (ai_player.py 325-482)

\* What the two validators compute on each snapshot the engine may send,
\* tabulated: the duplicate messages of check_duplicate_cards, the snapshot
\* as that call leaves it, and the verdict of
\* validate_monthly_pair_integrity on it.
Validators ==
    [r \in PlayerReplies |->
        [duplicates |-> check_duplicate_cards(r),
         walked     |-> Annotated(r),
         violation  |-> validate_monthly_pair_integrity(Annotated(r))]]

\* Faulty variant of RunsMonthly: the debug-level gate is dropped.
RunsMonthlyAlways(level) == TRUE

\* 363: the monthly validator is called only at debug level "high".
RunsMonthly(level) == level = "high"

\* time.sleep(2) of the two retry paths (350, 482), in milliseconds.
RetrySleep == 2000

\* Faulty variant of Except: the handler leaves the loop.
ExceptBreak(r, e) ==
    [r EXCEPT !.iter.error = e, !.iter.backoff = RetrySleep, !.pc = "raised"]

\* Faulty variant of Except: the handler runs the crash capture of
\* TestAgent.handle_crash and saves the repro steps.
ExceptCapture(r, e) ==
    [r EXCEPT !.iter.error = e, !.iter.backoff = RetrySleep,
              !.files = WriteFile(@, CrashFileName("ai_player", now),
                                  [context |-> "ai_player", error_message |-> e,
                                   last_known_state |-> r.cache]),
              !.repro = SaveReproSteps(@, r.log)]

\* 479-482: `except Exception` logs the error and sleeps; the while loop
\* goes on. r is the player as the try block left it, e the exception.
Except(r, e) ==
    [r EXCEPT !.iter.error = e, !.iter.backoff = RetrySleep]

\* Faulty variant of ResetHistory: the history is never emptied.
ResetHistoryNever(history, reset) == history

\* 386, 470: self.state_history = [] in the branches that start a session.
ResetHistory(history, reset) == IF reset THEN <<>> ELSE history

\* 374-477 for a snapshot with a gameState: the branch's effects on the
\* player after the validators (t), with the transport outcome of its send.
Dispatch(t, branch, out) ==
    LET reported == [t EXCEPT !.errors = @ \o branch.reports,
                              !.games = @ + branch.counted,
                              !.iter.phase = branch.phase]
        started  == [reported EXCEPT
                        !.history = ResetHistory(@, branch.reset)]
        command  == branch.commands[1]
        tried    == [started EXCEPT !.log = LogAfter(@, command),
                                    !.sent = Append(@, command),
                                    !.iter.commands = << command >>]
    IN  IF branch.raised # "none" THEN Except(reported, branch.raised)
        ELSE IF branch.returns THEN [reported EXCEPT !.pc = "returned"]
        ELSE IF branch.commands = <<>> THEN started
        ELSE IF RaisedBy(out) # "none" THEN Except(tried, RaisedBy(out))
        ELSE tried

\* Faulty variant of check_pause: input read while paused does not resume.
check_pause_sticky(p, key) == p \/ key

\* check_pause() (269-280): when a line of input is waiting (key) it is
\* read and the paused flag is flipped; one line per call.
check_pause(p, key) == IF key THEN ~p ELSE p

\* Faulty variant of pending_delays: the count is looked at only while a
\* game is being played.
pending_delays_when_playing(state_resp) ==
    IF state_resp.gameState = "playing"
    THEN state_resp.pendingAutomationDelays ELSE 0

\* 356: state_resp.get("pendingAutomationDelays", 0) or 0
pending_delays(state_resp) == state_resp.pendingAutomationDelays

\* One pass of the while loop (340-482) up to the dispatch ladder. Inputs:
\* key, whether the operator pressed Enter before check_pause; out, the
\* transport outcome of the state poll. The phase is "ladder" when the pass
\* goes on to line 374. An exception raised in the try block is caught at
\* 479 and becomes iter.error; sys.exit(1) is not caught and ends the
\* process.
BeforeLadder(key, out) ==
    LET now_paused == check_pause(paused, key)
        base == [paused |-> now_paused, log |-> action_log, cache |-> last_state,
                 history |-> state_history, games |-> games_completed,
                 pc |-> "loop", sent |-> sent, errors |-> error_report,
                 files |-> crash_files, repro |-> repro,
                 iter |-> [NoIteration EXCEPT !.toggled = key]]
        poll == SendCommand(GetState, out)
        polled == [base EXCEPT !.log = poll.log, !.cache = poll.cache,
                               !.sent = Append(@, GetState)]
        \* 353: record_state
        recorded == [polled EXCEPT !.history = Append(@, out.resp),
                                   !.iter.polled = out.resp]
        \* 361: check_duplicate_cards labels the cards of the one snapshot
        \* object that the history and the cache also hold.
        v == Validators[out.resp]
        \* 363: the monthly validator is called or not
        traced == [recorded EXCEPT
                       !.history = Append(state_history, v.walked),
                       !.cache = v.walked,
                       !.errors = IF v.duplicates # <<>>
                                  THEN Append(@, Report("duplicates", v.duplicates))
                                  ELSE @,
                       !.iter.validated =
                            IF RunsMonthly(debug_level)
                            THEN {"check_duplicate_cards",
                                  "validate_monthly_pair_integrity"}
                            ELSE {"check_duplicate_cards"}]
    IN  IF now_paused THEN [base EXCEPT !.iter.phase = "paused"]
        ELSE IF poll.raised # "none"
        THEN Except([polled EXCEPT !.iter.phase = "poll_failed"], poll.raised)
        \* 348-351
        ELSE IF out.resp.status # "ok"
        THEN [polled EXCEPT !.iter.phase = "poll_not_ok",
                            !.iter.backoff = RetrySleep]
        ELSE IF pending_delays(out.resp) > 0
        THEN [recorded EXCEPT !.iter.phase = "busy"]
        \* 364-372
        ELSE IF RunsMonthly(debug_level) /\ v.violation.kind # "none"
        THEN [traced EXCEPT
                 !.errors = Append(@, Report("monthly", << v.violation >>)),
                 !.pc = "exited", !.iter.phase = "exit"]
        \* 378-381
        ELSE IF v.walked.gameState = "None"
        THEN [traced EXCEPT !.iter.phase = "no_game_state"]
        ELSE [traced EXCEPT !.iter.phase = "ladder"]

\* The branch a pass takes after line 374: a branch of the ladder when the
\* pass reaches it, else nothing more.
BranchOf(t, coin, enter) ==
    IF t.iter.phase = "ladder"
    THEN Ladder(t.cache, t.history, coin, enter, t.games)
    ELSE Branch(t.iter.phase)

\* The inputs a pass reads: coin, random.random() < 0.5 (415, 438); enter,
\* whether Enter arrived in the restart window (463); and the transport
\* outcome of the branch's send.
Coins(t) ==
    IF t.iter.polled.gameState \in {"askingGoStop", "askingShake"}
    THEN BOOLEAN ELSE {TRUE}
Enters(t) == IF t.iter.polled.gameState = "ended" THEN BOOLEAN ELSE {TRUE}

\* The engine accepts a game command (its reply is not looked at) or the
\* send fails.
CommandReplies == {SnapReady}

SendOutcomes(branch) ==
    IF branch.commands # <<>> /\ branch.raised = "none" /\ ~branch.returns
    THEN TransportOutcomes(CommandReplies) ELSE {Reply(SnapReady)}

\* How a state poll went: "failed" when it raised or its status is not ok,
\* else the gameState of the snapshot it delivered.
PollClass(o) ==
    IF o.kind # "reply" \/ o.resp.status # "ok" THEN "failed" ELSE o.resp.gameState

GameStates == { r.gameState : r \in PlayerReplies \ {ErrReply} }

Polls(classes) ==
    { o \in TransportOutcomes(PlayerReplies) : PollClass(o) \in classes }

\* The engine keeps showing an ended session until a new one is started:
\* an 'ended' snapshot polled while it shows one is of the same session
\* (same) or of a further session that has ended since.
Sames(out) ==
    IF engine.at_end /\ PollClass(out) = "ended" THEN BOOLEAN ELSE {TRUE}

EngineAfter(out, same) ==
    IF PollClass(out) = "failed" THEN engine
    ELSE IF out.resp.gameState = "ended"
    THEN [engine EXCEPT
             !.sessions_ended = IF engine.at_end /\ same THEN @ ELSE @ + 1,
             !.at_end = TRUE]
    ELSE [engine EXCEPT !.at_end = FALSE]

\* The player after a pass of the loop that computed n.
Becomes(n) ==
    /\ paused' = n.paused
    /\ action_log' = n.log
    /\ last_state' = n.cache
    /\ state_history' = n.history
    /\ games_completed' = n.games
    /\ ai_pc' = n.pc
    /\ sent' = n.sent
    /\ error_report' = n.errors
    /\ crash_files' = n.files
    /\ repro' = n.repro
    /\ iter' = n.iter

\* A pass of the loop, with a poll of one of the given classes, that takes
\* one of the given branches. The inputs a branch does not read are not
\* enumerated.
Iteration(phases, classes) ==
    /\ ai_pc = "loop"
    /\ iterations < MaxIterations
    /\ \E key \in BOOLEAN, out \in Polls(classes) :
       \E same \in Sames(out) :
       \E t \in {BeforeLadder(key, out)} :
       \E coin \in Coins(t), enter \in Enters(t) :
       \E branch \in {BranchOf(t, coin, enter)} :
          /\ branch.phase \in phases
          /\ \E out2 \in SendOutcomes(branch) :
             \E n \in {Dispatch(t, branch, out2)} :
                /\ Becomes(n)
                /\ engine' = EngineAfter(out, same)
    /\ iterations' = iterations + 1
    /\ UNCHANGED <<connection_mode, app_executable_path, rng_seed, process,
                   results, app, now, runner_vars, session_open, interrupted,
                   pairs, crash, debug_level, num_games, session_vars,
                   given, result, full_game, ux_vars>>

\* The gameStates the ladder has a branch for (385-451).
LadderStates ==
    {"ready", "playing", "askingGoStop", "choosingCapture", "askingShake",
     "choosingChrysanthemumRole", "ended"}

LadderPhases ==
    {"ready", "playing", "empty_hand", "index_error", "askingGoStop",
     "choosingCapture", "askingShake", "choosingChrysanthemumRole",
     "ended", "returned", "warned", "unknown"}

\* 342-345: paused, nothing is polled.
PlayerPaused ==
    /\ Iteration({"paused"}, {"failed"})

\* 347-351 and 479-482: the poll raised, or its status is not ok.
PlayerPollFailed ==
    /\ Iteration({"poll_failed", "poll_not_ok"},
                 {"failed"})

\* 356-359
PlayerBusy ==
    /\ Iteration({"busy"}, GameStates)

\* 363-372
PlayerExit ==
    /\ Iteration({"exit"}, GameStates)

\* 378-381
PlayerNoGameState ==
    /\ Iteration({"no_game_state"}, {"None"})

\* 385-387
PlayerReady ==
    /\ Iteration({"ready"}, {"ready"})

\* 389-403
PlayerPlaying ==
    /\ Iteration({"playing"}, {"playing"})

\* 404-408
PlayerEmptyHand ==
    /\ Iteration({"empty_hand"}, {"playing"})

\* 410-449
PlayerRespond ==
    /\ Iteration({"askingGoStop", "choosingCapture", "askingShake",
                  "choosingChrysanthemumRole"},
                 {"askingGoStop", "choosingCapture", "askingShake",
                         "choosingChrysanthemumRole"})

\* 390-393, 429-431, 441-443: a branch that only logs a warning.
PlayerWarned ==
    /\ Iteration({"warned"}, {"playing", "choosingCapture", "askingShake"})

\* 451-472
PlayerEnded ==
    /\ Iteration({"ended", "returned"}, {"ended"})

\* 474-475: the else branch, for every gameState the ladder does not name.
PlayerUnknown ==
    /\ Iteration(LadderPhases, GameStates \ (LadderStates \cup {"None"}))

\* __main__ (484-495): socket mode, no executable, debug level and game
\* count from the command line. __main__ passes no seed; the constructor
\* (12-14) hands an rng_seed keyword to TestAgent.__init__.
InitPlayer ==
    /\ connection_mode = "socket" /\ app_executable_path = "None"
    /\ rng_seed \in Seeds /\ process = "None"
    /\ action_log = <<>> /\ last_state = EmptyDict /\ results = <<>>
    /\ app = "none" /\ now = 0 /\ crash_files = <<>> /\ repro = NoFile
    /\ pc = "off" /\ scenarios = <<>> /\ repeat_count = RepeatCount
    /\ iteration = 0 /\ idx = 0 /\ exc = "none" /\ propagating = "none"
    /\ steps = 0
    /\ sent = <<>> /\ session_open = FALSE /\ interrupted = FALSE
    /\ pairs = <<>> /\ crash = NoCrash
    /\ debug_level \in {"normal", "high"}
    /\ num_games \in 0..MaxGames
    /\ paused = FALSE /\ state_history = <<>> /\ games_completed = 0
    /\ error_report = <<>> /\ ai_pc = "loop" /\ iterations = 0
    /\ iter = NoIteration
    /\ SessionIdle
    /\ ProbeIdle

NextPlayer ==
    \/ PlayerPaused
    \/ PlayerPollFailed
    \/ PlayerBusy
    \/ PlayerExit
    \/ PlayerNoGameState
    \/ PlayerReady
    \/ PlayerPlaying
    \/ PlayerEmptyHand
    \/ PlayerRespond
    \/ PlayerWarned
    \/ PlayerEnded
    \/ PlayerUnknown

SpecPlayer == InitPlayer /\ [][NextPlayer]_vars

---------------------------------------------------------------------------
\* The session methods of TestAgent called in any order (main.py 66-179):
\* start_app, stop_app and _send_command, as run_tests (231-251),
\* inspect_state.py (27-272) or any other caller uses them. One call at a
\* time: the agent has one thread and every method blocks until it returns
\* or raises. _send_command is two steps, the write of the command and the
\* read of the response, with the engine acting in between.

\* A process just started by Popen; terminated and waited count the
\* terminate() and wait() calls made on it.
NewProcess == [state |-> "alive", terminated |-> 0, waited |-> 0]

\* 92-93: terminate() ends the program, wait() reaps it.
Terminated(p) ==
    [state |-> "terminated", terminated |-> p.terminated + 1,
     waited |-> p.waited + 1]

\* The call has returned (raised = "none") or raised; before is the method
\* called before this call.
Ended(method, command, raised, resp) ==
    [method |-> method, at |-> "idle", command |-> command,
     raised |-> raised, resp |-> resp,
     before |-> IF call.at = "awaiting" THEN call.before ELSE call.method]

\* Faulty variant of AfterWrite: _send_command returns without reading.
AfterWriteReturns(command) == Ended("_send_command", command, "none", EmptyDict)

\* 115-120 and 151-156: after the write the call blocks in the read.
AfterWrite(command) ==
    [method |-> "_send_command", at |-> "awaiting", command |-> command,
     raised |-> "none", resp |-> EmptyDict, before |-> call.method]

\* 146-148: socket() creates the socket and connect() connects it or
\* raises; by is the number of the call that created it.
NewSocket(connected, by) ==
    [state |-> IF connected THEN "connected" ELSE "unconnected", by |-> by]

\* 154-163: once recv has returned data or end-of-stream, s.close().
AfterRecv(socks) == [socks EXCEPT ![Len(socks)].state = "closed"]

InitSession ==
    /\ connection_mode \in {"cli", "socket"}
    /\ app_executable_path \in
          IF connection_mode = "cli" THEN {"None", "exe"} ELSE {"None"}
    /\ rng_seed = NoSeed /\ process = "None"
    /\ action_log = <<>> /\ last_state = EmptyDict /\ results = <<>>
    /\ app = "none" /\ now = 0 /\ crash_files = <<>> /\ repro = NoFile
    /\ pc = "off" /\ scenarios = <<>> /\ repeat_count = RepeatCount
    /\ iteration = 0 /\ idx = 0 /\ exc = "none" /\ propagating = "none"
    /\ steps = 0
    /\ sent = <<>> /\ session_open = FALSE /\ interrupted = FALSE
    /\ pairs = <<>> /\ crash = NoCrash
    /\ PlayerIdle
    /\ SessionIdle
    /\ ProbeIdle

\* What the session methods never touch.
SessionFrame ==
    UNCHANGED <<connection_mode, app_executable_path, rng_seed, results,
                crash_files, repro, runner_vars, interrupted, pairs, crash,
                player_vars, probe_vars, ux_vars>>

\* start_app() (66-86): the log and the cache are reset first; in cli mode
\* a missing path raises ValueError, else Popen starts a program and its
\* handle replaces whatever self.process held; in socket mode nothing more.
SessionStartApp ==
    /\ call.at = "idle" /\ calls < MaxCalls
    /\ calls' = calls + 1
    /\ action_log' = ResetLog(action_log)
    /\ last_state' = EmptyDict
    /\ sent' = <<>>
    /\ session_open' = TRUE
    /\ IF connection_mode = "cli"
       THEN IF app_executable_path = "None"
            THEN /\ call' = Ended("start_app", GetState,
                                  "app_executable_path is required", EmptyDict)
                 /\ UNCHANGED <<process, app, now, children, owned>>
            ELSE \E started \in BOOLEAN :
                   IF started
                   THEN /\ process' = "Popen" /\ app' = "alive"
                        /\ children' = Append(children, NewProcess)
                        /\ owned' = Len(children) + 1
                        /\ now' = now + 1           \* time.sleep(1)
                        /\ call' = Ended("start_app", GetState, "none", EmptyDict)
                   ELSE /\ call' = Ended("start_app", GetState,
                                         "Popen failed", EmptyDict)
                        /\ UNCHANGED <<process, app, now, children, owned>>
       ELSE /\ call' = Ended("start_app", GetState, "none", EmptyDict)
            /\ UNCHANGED <<process, app, now, children, owned>>
    /\ UNCHANGED <<wire, writes, observed, sockets>>
    /\ SessionFrame

\* stop_app() (88-94): with a handle, terminate, wait, drop the handle;
\* without one, nothing.
SessionStopApp ==
    /\ call.at = "idle" /\ calls < MaxCalls
    /\ calls' = calls + 1
    /\ StopApp
    /\ children' = IF process # "None"
                   THEN [children EXCEPT ![owned] = Terminated(@)]
                   ELSE children
    /\ owned' = IF process' = "None" THEN 0 ELSE owned
    /\ call' = Ended("stop_app", GetState, "none", EmptyDict)
    /\ UNCHANGED <<action_log, last_state, now, sent, wire, writes, observed,
                   sockets>>
    /\ SessionFrame

\* A started program exits on its own.
ProgramExits ==
    /\ \E p \in 1..Len(children) :
         /\ children[p].state = "alive"
         /\ children' = [children EXCEPT ![p].state = "exited"]
         /\ app' = IF p = owned THEN "exited" ELSE app
    /\ UNCHANGED <<process, action_log, last_state, now, sent, session_open,
                   owned, call, wire, writes, observed, calls, sockets>>
    /\ SessionFrame

\* _send_command(command) up to the write (102-116, 141-151). The command
\* is logged first; then cli mode raises without a handle or when the pipe
\* is closed, and socket mode raises when the connection is refused;
\* otherwise the command is written and the call waits for the response.
SessionSendWrite ==
    /\ call.at = "idle" /\ calls < MaxCalls
    /\ calls' = calls + 1
    /\ \E command \in ScenarioCommands, connected \in BOOLEAN :
         LET failure ==
                IF connection_mode = "cli"
                THEN IF process = "None" THEN Failure("not_running")
                     ELSE IF app # "alive" THEN Failure("broken_pipe")
                     ELSE NoAnswer
                ELSE IF connected THEN NoAnswer ELSE Failure("refused")
         IN
         /\ connection_mode = "cli" => connected
         /\ action_log' = LogAfter(action_log, command)
         /\ sent' = Append(sent, command)
         /\ sockets' = IF connection_mode = "socket"
                        THEN Append(sockets, NewSocket(connected, calls + 1))
                        ELSE sockets
         /\ IF failure = NoAnswer
            THEN /\ wire' = Append(wire, [id |-> writes + 1, command |-> command,
                                          answer |-> NoAnswer])
                 /\ writes' = writes + 1
                 /\ call' = AfterWrite(command)
            ELSE /\ call' = Ended("_send_command", command, RaisedBy(failure),
                                  EmptyDict)
                 /\ UNCHANGED <<wire, writes>>
    /\ UNCHANGED <<process, last_state, app, now, session_open, children, owned,
                   observed>>
    /\ SessionFrame

\* What the engine may put on the transport for a command it has read: a
\* response line, an unparsable line or, on a socket, a close with no data.
\* It may also stay silent.
Answers ==
    {Reply(r) : r \in RunnerReplies} \cup {Failure("malformed")}
        \cup (IF connection_mode = "socket" THEN {Failure("empty")} ELSE {})

EngineAnswers ==
    /\ wire # <<>> /\ wire[1].answer = NoAnswer
    /\ connection_mode = "cli" => app = "alive"
    /\ \E out \in Answers : wire' = [wire EXCEPT ![1].answer = out]
    /\ UNCHANGED <<process, action_log, last_state, app, now, sent, session_open,
                   children, owned, call, writes, observed, calls, sockets>>
    /\ SessionFrame

\* The outcome the blocked read sees: the engine's line or close; in cli
\* mode end-of-file once the program has gone (120-123).
Readable ==
    IF wire[1].answer # NoAnswer THEN {wire[1].answer}
    ELSE IF connection_mode = "cli" /\ app # "alive" THEN {Failure("closed")}
    ELSE {}

\* The rest of _send_command (120-140, 154-175): the read returns, the
\* cache is updated, the response is returned or RuntimeError raised.
SessionSendRead ==
    /\ call.at = "awaiting" /\ wire # <<>>
    /\ \E out \in Readable :
         /\ last_state' = CacheAfter(last_state, call.command, out)
         /\ call' = Ended("_send_command", call.command, RaisedBy(out), out.resp)
    /\ observed' = Append(observed, wire[1].id)
    /\ wire' = Tail(wire)
    /\ sockets' = IF connection_mode = "socket" THEN AfterRecv(sockets)
                  ELSE sockets
    /\ UNCHANGED <<process, action_log, app, now, sent, session_open, children,
                   owned, writes, calls>>
    /\ SessionFrame

\* Socket mode only (147): recv times out after action_timeout_sec and the
\* call raises (174-175); line 163 is not reached, the socket stays as it
\* is. The cli read (120) has no timeout.
SessionSendTimeout ==
    /\ connection_mode = "socket"
    /\ call.at = "awaiting" /\ wire # <<>> /\ wire[1].answer = NoAnswer
    /\ call' = Ended("_send_command", call.command,
                     RaisedBy(Failure("timeout")), EmptyDict)
    /\ observed' = Append(observed, wire[1].id)
    /\ wire' = Tail(wire)
    /\ UNCHANGED <<process, action_log, last_state, app, now, sent, session_open,
                   children, owned, writes, calls, sockets>>
    /\ SessionFrame

\* A socket that was never closed (the `except` of 174-175 leaves without
\* s.close()) is closed by the interpreter when it reclaims the object,
\* some time after the call that created it has ended.
SocketCollected ==
    /\ \E i \in 1..Len(sockets) :
         /\ sockets[i].state # "closed"
         /\ ~(call.at = "awaiting" /\ i = Len(sockets))
         /\ sockets' = [sockets EXCEPT ![i].state = "closed"]
    /\ UNCHANGED <<process, action_log, last_state, app, now, sent, session_open,
                   children, owned, call, wire, writes, observed, calls>>
    /\ SessionFrame

NextSession ==
    \/ SessionStartApp
    \/ SessionStopApp
    \/ ProgramExits
    \/ SessionSendWrite
    \/ EngineAnswers
    \/ SessionSendRead
    \/ SessionSendTimeout
    \/ SocketCollected

SpecSession == InitSession /\ [][NextSession]_vars

\* The agent's own steps always go on when they can: a read that has
\* something to read returns, a socket read with nothing to read times
\* out. Nothing obliges the engine to answer.
SpecSessionFair ==
    /\ SpecSession
    /\ WF_vars(SessionSendRead)
    /\ WF_vars(SessionSendTimeout)

---------------------------------------------------------------------------
\* The validators and select_best_card called on their own (SpecValidators)

\* A placeholder card (month 0); id 0 is a card without an id.
Dummy(i) == [Card(i, 0) EXCEPT !.type = "dummy"]

\* A score item: an absent "points" or "score" key reads as 0.
Item(points, score) == [points |-> points, score |-> score]

\* The second player's hand: as dealt; card 1 of the first hand again and
\* card 3 nowhere; card 4 twice; card 4 missing.
GivenHands ==
    { SubSeq(FullDeck, 3, 4), << FullDeck[1], FullDeck[4] >>,
      << FullDeck[3], FullDeck[4], FullDeck[4] >>, << FullDeck[3] >> }

\* pendingCapturePlayedCard: absent, card 4, or card 5 of the table.
GivenPending == { <<>>, << FullDeck[4] >>, << FullDeck[5] >> }

\* Cards added to the table and to the out-of-play zone: none; a
\* placeholder on the table; the same placeholder in both zones; a
\* placeholder without an id in both; a card of a thirteenth month.
GivenPlaceholders ==
    { << <<>>, <<>> >>, << << Dummy(49) >>, <<>> >>,
      << << Dummy(49) >>, << Dummy(49) >> >>,
      << << Dummy(0) >>, << Dummy(0) >> >>,
      << << Card(50, NumMonths + 1) >>, <<>> >> }

\* The reported score and the score items of the two players.
GivenScores ==
    { << <<0, <<>>>>, <<0, <<>>>> >>,
      << <<5, << Item(3, 0), Item(0, 2) >> >>, <<0, <<>>>> >>,
      << <<5, << Item(3, 0) >> >>, <<0, <<>>>> >>,
      << <<0, << Item(0, 1) >> >>, <<2, << Item(1, 2) >> >> >> }

GivenGameStates == {"ready", "None", "playing", "ended"}

GivenState(gs, hand, pending, extra, scores) ==
    [Dealt(gs) EXCEPT
        !.players[1].score = scores[1][1],
        !.players[1].scoreItems = scores[1][2],
        !.players[2].hand = hand,
        !.players[2].score = scores[2][1],
        !.players[2].scoreItems = scores[2][2],
        !.tableCards = @ \o extra[1],
        !.outOfPlayCards = extra[2],
        !.pendingCapturePlayedCard = pending]

NoScores == << <<0, <<>>>>, <<0, <<>>>> >>

\* The snapshots handed to the validators.
GivenStates ==
    { GivenState(gs, hand, pending, extra, NoScores) :
        gs \in GivenGameStates, hand \in GivenHands,
        pending \in GivenPending, extra \in GivenPlaceholders }
    \cup
    { GivenState(gs, SubSeq(FullDeck, 3, 4), <<>>, << <<>>, <<>> >>, scores) :
        gs \in GivenGameStates, scores \in GivenScores }

\* The hands and tables handed to select_best_card: up to MaxHand hand cards
\* of months 0..2 with ids 1, 2, 3 in hand order, up to MaxTable table cards
\* of months 0..3.
MaxHand  == 3
MaxTable == 2
GivenHandCards ==
    UNION { { [i \in 1..n |-> IF f[i] = 0 THEN Dummy(i) ELSE Card(i, f[i])] :
                f \in [1..n -> 0..2] } : n \in 1..MaxHand }
GivenTableCards ==
    UNION { { [i \in 1..n |-> IF f[i] = 0 THEN Dummy(10 + i) ELSE Card(10 + i, f[i])] :
                f \in [1..n -> 0..3] } : n \in 0..MaxTable }

\* One call: a snapshot for the validators (recorded as the last entry of
\* the history, as line 353 does before line 361), or a hand and a table
\* for select_best_card.
InitValidators ==
    /\ connection_mode = "socket" /\ app_executable_path = "None"
    /\ rng_seed = NoSeed /\ process = "None"
    /\ action_log = <<>> /\ last_state = EmptyDict /\ results = <<>>
    /\ app = "none" /\ now = 0 /\ crash_files = <<>> /\ repro = NoFile
    /\ pc = "off" /\ scenarios = <<>> /\ repeat_count = RepeatCount
    /\ iteration = 1 /\ idx = 1
    /\ exc = "none" /\ propagating = "none" /\ steps = 0
    /\ sent = <<>> /\ session_open = FALSE /\ interrupted = FALSE
    /\ pairs = <<>> /\ crash = NoCrash
    /\ debug_level = "high" /\ paused = FALSE
    /\ games_completed = 0 /\ num_games = 0 /\ error_report = <<>>
    /\ ai_pc = "off" /\ iterations = 0 /\ iter = NoIteration
    /\ SessionIdle
    /\ full_game = NoFullGame /\ engine = NoEngine
    /\ result = NoResult /\ monitor = NoMonitor
    /\ \/ /\ given \in { [NoGiven EXCEPT !.state = s] : s \in GivenStates }
          /\ state_history = << given.state >>
       \/ /\ given \in { [NoGiven EXCEPT !.hand = h, !.table_cards = t] :
                            h \in GivenHandCards, t \in GivenTableCards }
          /\ state_history = <<>>

ValidatorsFrame ==
    UNCHANGED <<agent_vars, env_vars, runner_vars, hist_vars, session_vars,
                debug_level, paused, games_completed, num_games, ai_pc,
                iterations, iter, full_game, engine, ux_vars>>

\* report_error(errors) (248-267) when errors is not empty.
Reported(kind, errors) ==
    IF errors # <<>> THEN Append(error_report, Report(kind, errors))
    ELSE error_report

\* check_duplicate_cards(state): the cards of the snapshot, which the
\* history entry holds too, get their zone labels; the duplicates are
\* reported and nothing is raised.
CallCheckDuplicateCards ==
    /\ result.fn = "none" /\ state_history # <<>>
    /\ \E duplicates \in { check_duplicate_cards(given.state) } :
         /\ result' = [NoResult EXCEPT !.fn = "check_duplicate_cards",
                                       !.duplicates = duplicates]
         /\ error_report' = Reported("duplicates", duplicates)
    /\ given' = [given EXCEPT !.state = Annotated(@)]
    /\ state_history' = << Annotated(given.state) >>
    /\ ValidatorsFrame

\* validate_monthly_pair_integrity(state): returns, or raises ValueError.
CallValidateMonthlyPairIntegrity ==
    /\ result.fn = "none" /\ state_history # <<>>
    /\ result' = [NoResult EXCEPT
                     !.fn = "validate_monthly_pair_integrity",
                     !.violation = validate_monthly_pair_integrity(given.state)]
    /\ UNCHANGED <<given, state_history, error_report>>
    /\ ValidatorsFrame

\* validate_game_results(): the errors of rule 1 are reported.
CallValidateGameResults ==
    /\ result.fn = "none" /\ state_history # <<>>
    /\ \E errors \in { validate_game_results(state_history) } :
         /\ result' = [NoResult EXCEPT !.fn = "validate_game_results",
                                       !.errors = errors]
         /\ error_report' = Reported("scores", errors)
    /\ UNCHANGED <<given, state_history>>
    /\ ValidatorsFrame

\* select_best_card(hand, table_cards) on a non-empty hand.
CallSelectBestCard ==
    /\ result.fn = "none" /\ given.hand # <<>>
    /\ result' = [NoResult EXCEPT
                     !.fn = "select_best_card",
                     !.card = << select_best_card(given.hand, given.table_cards) >>]
    /\ UNCHANGED <<given, state_history, error_report>>
    /\ ValidatorsFrame

\* is_dummy(card) (test_scenarios.py 1277-1278, inspect_state.py 139)
is_dummy(card) == card.type = "dummy"

NotDummy(card) == ~is_dummy(card)

\* unique_cards (test_scenarios.py 1305-1314): one entry per id, the last
\* card seen with it; a card without an id (0) is an entry of its own.
Deduped(cs) ==
    { i \in 1..Len(cs) :
        cs[i].id = 0 \/ \A j \in (i + 1)..Len(cs) : cs[j].id # cs[i].id }

\* The audit inside scenario_verify_monthly_pair_integrity (test_scenarios.py
\* 1284-1328) on a polled snapshot: TRUE when neither assertion fails. The
\* cards that are not dummies of the hands, the captures, the table, the
\* deck, the out-of-play zone and the three pending fields, one per id;
\* every month 1..12 has 4 of them and there are 48 in all.
scenario_monthly_pair_audit(state) ==
    LET all_cards == SelectSeq(PlayerCards(state.players) \o state.tableCards
                                  \o state.deckCards \o state.outOfPlayCards
                                  \o state.pendingChrysanthemumCard
                                  \o state.pendingCapturePlayedCard
                                  \o state.pendingCaptureDrawnCard,
                               NotDummy)
        deduped_cards == Deduped(all_cards)
    IN  /\ \A m \in 1..NumMonths :
              Cardinality({ i \in deduped_cards : all_cards[i].month = m })
                 = CardsPerMonth
        /\ Cardinality(deduped_cards) = TotalCards

\* The month-pair validation of inspect_state.py (132-179) on a snapshot:
\* TRUE when it prints ALL CARDS ACCOUNTED FOR. The cards that are not
\* dummies of the hands, the captures, the table, the deck, the out-of-play
\* zone and pendingCapturePlayedCard, every entry counted.
inspect_state_month_pair_validation(state) ==
    LET all_cards == SelectSeq(PlayerCards(state.players) \o state.tableCards
                                  \o state.deckCards \o state.outOfPlayCards
                                  \o state.pendingCapturePlayedCard,
                               NotDummy)
    IN  /\ \A m \in 1..NumMonths : MonthCount(all_cards, m) = CardsPerMonth
        /\ Len(all_cards) = TotalCards

\* The three monthly-pair audits of the repository on one snapshot: whether
\* the player's validator returns, the scenario's assertions pass, and
\* inspect_state reports all cards accounted for.
CallMonthlyAudits ==
    /\ result.fn = "none" /\ state_history # <<>>
    /\ result' = [NoResult EXCEPT
                     !.fn = "monthly_audits",
                     !.violation = validate_monthly_pair_integrity(given.state),
                     !.accepts =
                        << validate_monthly_pair_integrity(given.state)
                              = NoViolation,
                           scenario_monthly_pair_audit(given.state),
                           inspect_state_month_pair_validation(given.state) >>]
    /\ UNCHANGED <<given, state_history, error_report>>
    /\ ValidatorsFrame

NextValidators ==
    \/ CallCheckDuplicateCards
    \/ CallValidateMonthlyPairIntegrity
    \/ CallValidateGameResults
    \/ CallSelectBestCard
    \/ CallMonthlyAudits

SpecValidators == InitValidators /\ [][NextValidators]_vars

---------------------------------------------------------------------------
\* scenario_verify_card_integrity_full_game (test_scenarios.py 1128-1263),
\* run as the scenario procedure of one session (SpecFullGame)

\* 1140: the safety limit of the loop
max_steps == 200

\* Faulty variant of count_unique_real_cards: the pending card fields are
\* not added.
count_unique_zone_cards(current_state) ==
    LET cs == PlayerCards(current_state.players) \o current_state.tableCards
                 \o current_state.deckCards \o current_state.outOfPlayCards
        real == { i \in 1..Len(cs) : cs[i].type # "dummy" }
    IN  Cardinality({ cs[i].id : i \in real })

\* count_unique_real_cards (1148-1178): the distinct ids of the cards that
\* are not of type "dummy" over hands, captured cards, table, deck,
\* out-of-play and the three pending card fields, plus one for every such
\* card without an id.
count_unique_real_cards(current_state) ==
    LET cs == PlayerCards(current_state.players) \o current_state.tableCards
                 \o current_state.deckCards \o current_state.outOfPlayCards
                 \o current_state.pendingCapturePlayedCard
                 \o current_state.pendingCaptureDrawnCard
                 \o current_state.pendingChrysanthemumCard
        real == { i \in 1..Len(cs) : cs[i].type # "dummy" }
        seen_ids == { cs[i].id : i \in { j \in real : cs[j].id # 0 } }
        fallback_count == Cardinality({ i \in real : cs[i].id = 0 })
    IN  Cardinality(seen_ids) + fallback_count

\* What one pass of the loop does after its poll: the assertion that fails,
\* the return on 'ended', or the commands it sends.
Pass(commands, raised, returns) ==
    [commands |-> commands, raised |-> raised, returns |-> returns]

RECURSIVE ShakeCommands(_)
ShakeCommands(months) ==
    IF months = <<>> THEN <<>>
    ELSE << UserAction("respond_to_shake",
               <<"month", ToString(Head(months)), "didShake", "true">>) >>
         \o ShakeCommands(Tail(months))

\* 1181-1258
FullGamePass(state) ==
    IF count_unique_real_cards(state) # TotalCards
    THEN Pass(<<>>, "Card integrity violation", FALSE)
    ELSE CASE state.gameState = "ended" -> Pass(<<>>, "none", TRUE)
           [] state.gameState = "playing" ->
                IF state.currentTurnIndex >= Len(state.players)
                THEN Pass(<<>>, "IndexError", FALSE)
                ELSE LET hand == state.players[state.currentTurnIndex + 1].hand
                     IN  IF hand # <<>>
                         THEN Pass(<< UserAction("play_card",
                                        <<"month", ToString(hand[1].month),
                                          "type", hand[1].type>>) >>,
                                   "none", FALSE)
                         ELSE Pass(<<>>, "Player has no cards", FALSE)
           [] state.gameState = "askingGoStop" ->
                Pass(<< UserAction("respond_go_stop", <<"isGo", "true">>) >>,
                     "none", FALSE)
           [] state.gameState = "askingShake" ->
                IF state.pendingShakeMonths = <<>>
                THEN Pass(<<>>, "askingShake with empty pendingShakeMonths", FALSE)
                ELSE Pass(ShakeCommands(state.pendingShakeMonths), "none", FALSE)
           [] state.gameState = "choosingCapture" ->
                IF state.pendingCaptureOptions = <<>>
                THEN Pass(<<>>, "choosingCapture with empty pendingCaptureOptions",
                          FALSE)
                ELSE Pass(<< UserAction("respond_to_capture",
                               <<"id", ToString(state.pendingCaptureOptions[1].id)>>) >>,
                          "none", FALSE)
           [] state.gameState = "choosingChrysanthemumRole" ->
                Pass(<< UserAction("respond_to_chrysanthemum_choice",
                           <<"role", "doublePi">>) >>, "none", FALSE)
           [] OTHER -> Pass(<<>>, "Unexpected game state", FALSE)

\* The engine's answers to the scenario's polls. An engine follows a
\* script: it shows a game being played for ever, or goes round the states
\* that ask for a choice; at any poll it may instead show one of the
\* snapshots that end the scenario.
SnapShakeTwo == [Dealt("askingShake") EXCEPT !.pendingShakeMonths = <<1, 2>>]

\* Card 6 has left the table and is the pending played card.
SnapCapturePending ==
    [Dealt("choosingCapture") EXCEPT
        !.tableCards = << FullDeck[5] >>,
        !.pendingCapturePlayedCard = << FullDeck[6] >>,
        !.pendingCaptureOptions = << FullDeck[5] >>]

SnapEndedMissingCard ==
    [Dealt("ended") EXCEPT !.deckCards = SubSeq(FullDeck, 7, TotalCards - 1)]

EngineScripts == {"playing", "choices"}

ChoiceRound ==
    << SnapPlaying, SnapShakeTwo, SnapCapturePending, SnapGoStop,
       SnapChrysanthemum >>

ScriptReply(script, n) ==
    IF script = "choices" THEN ChoiceRound[(n % Len(ChoiceRound)) + 1]
    ELSE SnapPlaying

EndingReplies ==
    { SnapEnded, SnapEndedMissingCard, SnapMissingCard, SnapDuplicate,
      SnapUnknown, SnapNoGameState, SnapEmptyHand, SnapCaptureNone,
      Dealt("askingShake"), ErrReply }

FullGamePolls ==
    TransportOutcomes({ScriptReply(engine.script, full_game.step_count)}
                         \cup EndingReplies)

\* The session of run_tests in which the scenario procedure is about to be
\* called: start_app has run and no seed is configured.
InitFullGame ==
    /\ connection_mode \in {"cli", "socket"}
    /\ app_executable_path = IF connection_mode = "cli" THEN "exe" ELSE "None"
    /\ process = IF connection_mode = "cli" THEN "Popen" ELSE "None"
    /\ app = IF connection_mode = "cli" THEN "alive" ELSE "none"
    /\ rng_seed = NoSeed
    /\ action_log = <<>> /\ last_state = EmptyDict /\ results = <<>>
    /\ now = 1 /\ crash_files = <<>> /\ repro = NoFile
    /\ pc = "body"
    /\ scenarios = << "scenario_verify_card_integrity_full_game" >>
    /\ repeat_count = RepeatCount /\ iteration = 1 /\ idx = 1
    /\ exc = "none" /\ propagating = "none" /\ steps = 0
    /\ sent = <<>> /\ session_open = TRUE /\ interrupted = FALSE
    /\ pairs = <<>> /\ crash = NoCrash
    /\ PlayerIdle
    /\ SessionIdle
    /\ given = NoGiven /\ result = NoResult
    /\ full_game = [NoFullGame EXCEPT !.at = "start"]
    /\ monitor = NoMonitor
    /\ engine \in { [NoEngine EXCEPT !.script = s] : s \in EngineScripts }

FullGameFrame ==
    UNCHANGED <<connection_mode, app_executable_path, rng_seed, process,
                results, now, crash_files, repro, scenarios, repeat_count,
                iteration, idx, propagating, steps, session_open, interrupted,
                crash, player_vars, session_vars, given, result, engine,
                ux_vars>>

\* The agent after sending the commands one after the other with the last
\* send ending as out: every command is logged and sent.
RECURSIVE LogAfterEach(_, _)
LogAfterEach(log, commands) ==
    IF commands = <<>> THEN log
    ELSE LogAfterEach(LogAfter(log, Head(commands)), Tail(commands))

\* 1137: agent.send_user_action("start_game")
FullGameStart ==
    /\ pc = "body" /\ full_game.at = "start"
    /\ \E out \in TransportOutcomes(CommandReplies) :
         LET command == UserAction("start_game", <<>>)
             r == SendCommand(command, out) IN
         /\ action_log' = r.log
         /\ last_state' = r.cache
         /\ sent' = Append(sent, command)
         /\ app' = AppAfter(out)
         /\ IF r.raised = "none"
            THEN /\ full_game' = [full_game EXCEPT !.at = "loop"]
                 /\ UNCHANGED <<pc, exc, pairs>>
            ELSE /\ full_game' = [full_game EXCEPT !.at = "raised"]
                 /\ Caught(r.raised, "raised")
    /\ FullGameFrame

\* One pass of the while loop whose poll fails: the RuntimeError leaves the
\* scenario.
FullGamePollFails ==
    /\ pc = "body" /\ full_game.at = "loop" /\ full_game.step_count < max_steps
    /\ \E out \in FullGamePolls :
         LET r == SendCommand(GetState, out) IN
         /\ r.raised # "none"
         /\ action_log' = r.log
         /\ last_state' = r.cache
         /\ sent' = Append(sent, GetState)
         /\ app' = AppAfter(out)
         /\ full_game' = [full_game EXCEPT !.at = "raised"]
         /\ Caught(r.raised, "raised")
    /\ FullGameFrame

\* One pass whose polled snapshot fails an assertion of the scenario.
FullGameAssertFails ==
    /\ pc = "body" /\ full_game.at = "loop" /\ full_game.step_count < max_steps
    /\ \E out \in FullGamePolls :
         LET r == SendCommand(GetState, out) IN
         /\ r.raised = "none"
         /\ \E pass \in {FullGamePass(out.resp)} :
              /\ pass.raised # "none"
              /\ full_game' = [full_game EXCEPT !.at = "raised",
                                                !.polled = out.resp]
              /\ Caught(pass.raised, "raised")
         /\ action_log' = r.log
         /\ last_state' = r.cache
         /\ sent' = Append(sent, GetState)
         /\ app' = AppAfter(out)
    /\ FullGameFrame

\* One pass that observes 'ended': the scenario returns.
FullGameReturn ==
    /\ pc = "body" /\ full_game.at = "loop" /\ full_game.step_count < max_steps
    /\ \E out \in FullGamePolls :
         LET r == SendCommand(GetState, out) IN
         /\ r.raised = "none"
         /\ FullGamePass(out.resp).returns
         /\ action_log' = r.log
         /\ last_state' = r.cache
         /\ sent' = Append(sent, GetState)
         /\ app' = AppAfter(out)
         /\ full_game' = [full_game EXCEPT !.at = "returned", !.polled = out.resp]
    /\ pc' = "save"
    /\ UNCHANGED <<exc, pairs>>
    /\ FullGameFrame

\* One pass that answers the snapshot: its commands are sent one after the
\* other; the first k go through and either all are sent or the next one
\* fails, and then the RuntimeError leaves the scenario.
FullGameAct ==
    /\ pc = "body" /\ full_game.at = "loop" /\ full_game.step_count < max_steps
    /\ \E out \in FullGamePolls :
         LET r == SendCommand(GetState, out) IN
         /\ r.raised = "none"
         /\ \E pass \in {FullGamePass(out.resp)} :
              /\ pass.raised = "none" /\ ~pass.returns
              /\ \E k \in 1..Len(pass.commands),
                    out2 \in TransportOutcomes(CommandReplies) :
                   /\ (k < Len(pass.commands)) => RaisedBy(out2) # "none"
                   /\ action_log' = LogAfterEach(r.log, SubSeq(pass.commands, 1, k))
                   /\ sent' = Append(sent, GetState) \o SubSeq(pass.commands, 1, k)
                   /\ app' = AppAfter(out2)
                   /\ IF RaisedBy(out2) = "none"
                      THEN /\ full_game' =
                                [full_game EXCEPT !.step_count = @ + 1,
                                                  !.polled = out.resp]
                           /\ UNCHANGED <<pc, exc, pairs>>
                      ELSE /\ full_game' = [full_game EXCEPT !.at = "raised",
                                                             !.polled = out.resp]
                           /\ Caught(RaisedBy(out2), "raised")
         /\ last_state' = r.cache
    /\ FullGameFrame

\* 1262-1263: the loop ran its max_steps passes without observing 'ended'.
FullGameOverrun ==
    /\ pc = "body" /\ full_game.at = "loop" /\ full_game.step_count >= max_steps
    /\ full_game' = [full_game EXCEPT !.at = "raised"]
    /\ Caught("Game did not end within max_steps", "raised")
    /\ UNCHANGED <<action_log, last_state, sent, app>>
    /\ FullGameFrame

NextFullGame ==
    \/ FullGameStart
    \/ FullGamePollFails
    \/ FullGameAssertFails
    \/ FullGameReturn
    \/ FullGameAct
    \/ FullGameOverrun

SpecFullGame == InitFullGame /\ [][NextFullGame]_vars

---------------------------------------------------------------------------
\* UXMonitor (ai_ux_player_monitor.py 14-204): a second client of the
\* simulator's socket. It polls the state, looks for animation anomalies
\* and lets the operator pause and walk through the engine's history.
\* Times are in tenths of a second.

MaxPasses == 4          \* passes of the monitor's loop

HangThreshold == 50     \* 97: duration > 5.0
PassTime == 4           \* 170 and 202: select 0.3 s, sleep 0.1 s
SocketTimeout == 20     \* 28: s.settimeout(2.0)

\* send_command returned None (45-47), or the response has no "data".
None == [status |-> "None"]

\* The value of `data.get("cardId") or data.get("cardIds")` (114, 117): a
\* card id, else the list under cardIds, else None. A str and None can be
\* dictionary keys, a list cannot.
card_id(data) ==
    IF data.cardId # "" THEN [hashable |-> TRUE, id |-> <<data.cardId>>]
    ELSE IF data.cardIds # <<>> THEN [hashable |-> FALSE, id |-> data.cardIds]
    ELSE [hashable |-> TRUE, id |-> <<>>]

\* An entry of uxEventLogs; "" and <<>> stand for an absent key.
UxEvent(id, type, cardId, cardIds) ==
    [id |-> id, type |-> type, data |-> [cardId |-> cardId, cardIds |-> cardIds]]

\* The snapshot fields the monitor reads (79-81, 92-93, 103, 164).
UxState(count, src, tgt, moving, busy, delays, logs) ==
    [status |-> "ok", historyCount |-> count,
     hiddenInSourceCardIds |-> src, hiddenInTargetCardIds |-> tgt,
     currentMovingCardIds |-> moving, isAutomationBusy |-> busy,
     pendingAutomationDelays |-> delays, uxEventLogs |-> logs]

\* validate_sequence(event) (110-122) on the in-flight moves: what they
\* become, whether an orphan is flagged, what is raised. A list as the key
\* raises TypeError at 115 or 118.
validate_sequence(event, pending_moves) ==
    LET card == card_id(event.data) IN
    IF event.type \in {"moveStart", "moveEnd"} /\ ~card.hashable
    THEN [pending_moves |-> pending_moves, orphan |-> FALSE,
          raised |-> "TypeError"]
    ELSE IF event.type = "moveStart"
    THEN [pending_moves |-> pending_moves \cup {card}, orphan |-> FALSE,
          raised |-> "none"]
    ELSE IF event.type = "moveEnd"
    THEN IF card \in pending_moves
         THEN [pending_moves |-> pending_moves \ {card}, orphan |-> FALSE,
               raised |-> "none"]
         ELSE [pending_moves |-> pending_moves, orphan |-> TRUE,
               raised |-> "none"]
    ELSE [pending_moves |-> pending_moves, orphan |-> FALSE, raised |-> "none"]

\* 106: event_id not in self.processed_events
Unprocessed(event_id, processed_events) == event_id \notin processed_events

\* 103-108: the loop over uxEventLogs from entry i on. acc holds the
\* processed ids, the in-flight moves, the ids of the events validated and
\* of those flagged as orphans; an exception ends the loop.
RECURSIVE SequenceValidation(_, _, _)
SequenceValidation(ux_logs, i, acc) ==
    IF i > Len(ux_logs) \/ acc.raised # "none" THEN acc
    ELSE IF ~Unprocessed(ux_logs[i].id, acc.processed_events)
    THEN SequenceValidation(ux_logs, i + 1, acc)
    ELSE LET v == validate_sequence(ux_logs[i], acc.pending_moves) IN
         SequenceValidation(ux_logs, i + 1,
            [processed_events |-> acc.processed_events \cup {ux_logs[i].id},
             pending_moves |-> v.pending_moves,
             validated |-> Append(acc.validated, ux_logs[i].id),
             orphans |-> IF v.orphan THEN Append(acc.orphans, ux_logs[i].id)
                         ELSE acc.orphans,
             raised |-> v.raised])

\* Faulty variant of Ghost: every hidden card counts as a ghost.
GhostAnyHidden(hidden, moving_ids) == Range(hidden)

\* 83-84: hidden_src - moving_ids, hidden_tgt - moving_ids
Ghost(hidden, moving_ids) == Range(hidden) \ Range(moving_ids)

\* 95-100: the timestamp is kept while the snapshot is busy with delays
\* pending and set to the time of the call otherwise.
BusySince(state, busy_since, t) ==
    IF state.isAutomationBusy /\ state.pendingAutomationDelays > 0
    THEN busy_since ELSE t

\* 95-98: busy with delays pending and time.time() - busy_since > 5.0
AnimationHang(state, busy_since, t) ==
    /\ state.isAutomationBusy /\ state.pendingAutomationDelays > 0
    /\ t - busy_since > HangThreshold

\* Nothing was looked for.
NoAnomalies ==
    [ghost_source |-> {}, ghost_target |-> {}, hang |-> FALSE,
     validated |-> <<>>, orphans |-> <<>>]

\* detect_anomalies(state) (75-108) called at time t on the monitor m: the
\* monitor afterwards, the anomalies logged, the exception raised.
detect_anomalies(state, m, t) ==
    LET seq == SequenceValidation(state.uxEventLogs, 1,
                  [processed_events |-> m.processed_events,
                   pending_moves |-> m.pending_moves,
                   validated |-> <<>>, orphans |-> <<>>, raised |-> "none"])
    IN
    [m |-> [m EXCEPT !.busy_since = BusySince(state, @, t),
                     !.processed_events = seq.processed_events,
                     !.pending_moves = seq.pending_moves],
     found |-> [ghost_source |-> Ghost(state.hiddenInSourceCardIds,
                                       state.currentMovingCardIds),
                ghost_target |-> Ghost(state.hiddenInTargetCardIds,
                                       state.currentMovingCardIds),
                hang |-> AnimationHang(state, m.busy_since, t),
                validated |-> seq.validated,
                orphans |-> seq.orphans],
     raised |-> seq.raised]

\* 61-62 and 49-50: the command of the pass's poll.
get_history_entry(index) ==
    [action |-> "get_history_entry", data |-> <<"index", ToString(index)>>]

\* 158-161
PollCommand(is_paused, index) ==
    IF is_paused THEN get_history_entry(index) ELSE GetState

\* Faulty variant of Detects: the anomalies are looked for in both modes.
DetectsAlways(is_paused) == TRUE

\* 165: if not self.is_paused
Detects(is_paused) == ~is_paused

\* 163-168: the monitor after the poll returned state at time t.
AfterPoll(m, state, t) ==
    IF state = None
    THEN [m |-> m, detected |-> FALSE, found |-> NoAnomalies, raised |-> "none"]
    ELSE LET counted == [m EXCEPT !.history_count = state.historyCount] IN
         IF Detects(m.is_paused)
         THEN LET d == detect_anomalies(state, counted, t) IN
              [m |-> IF d.raised = "none"
                     THEN [d.m EXCEPT !.history_index = d.m.history_count - 1]
                     ELSE d.m,
               detected |-> TRUE, found |-> d.found, raised |-> d.raised]
         ELSE [m |-> counted, detected |-> FALSE, found |-> NoAnomalies,
               raised |-> "none"]

StepNextTurn == [action |-> "step_next_turn", data |-> <<>>]

\* 173-178: Enter toggles the mode; entering review, the view starts at the
\* last entry.
OnEnter(m) ==
    LET toggled == [m EXCEPT !.is_paused = ~@] IN
    IF toggled.is_paused
    THEN [toggled EXCEPT !.history_index = toggled.history_count - 1]
    ELSE toggled

\* 183-186: Left
OnLeft(m) ==
    IF m.is_paused /\ m.history_index > 0
    THEN [m EXCEPT !.history_index = @ - 1] ELSE m

\* Faulty variant of OnRight: at the last entry the view steps on and
\* nothing is forced.
OnRightStepsOnly(m, new_state) ==
    [m |-> IF m.is_paused THEN [m EXCEPT !.history_index = @ + 1] ELSE m,
     commands |-> <<>>]

\* 187-199: Right. Below the last entry the view steps forward; otherwise
\* step_next_turn is sent, then get_state, whose answer new_state, if any,
\* moves the view to the new last entry.
OnRight(m, new_state) ==
    IF ~m.is_paused THEN [m |-> m, commands |-> <<>>]
    ELSE IF m.history_index < m.history_count - 1
    THEN [m |-> [m EXCEPT !.history_index = @ + 1], commands |-> <<>>]
    ELSE [m |-> IF new_state = None THEN m
                ELSE [m EXCEPT !.history_count = new_state.historyCount,
                               !.history_index = new_state.historyCount - 1],
          commands |-> <<StepNextTurn, GetState>>]

\* 170-201: the key read in this pass, "none" when select timed out.
Keys == {"none", "enter", "left", "right", "q"}

AfterKey(m, pressed, new_state) ==
    CASE pressed = "enter" -> [m |-> OnEnter(m), commands |-> <<>>]
      [] pressed = "left"  -> [m |-> OnLeft(m), commands |-> <<>>]
      [] pressed = "right" -> OnRight(m, new_state)
      [] OTHER             -> [m |-> m, commands |-> <<>>]

\* ---- what the engine may answer

EvStart1   == UxEvent(1, "moveStart", "c1", <<>>)
EvEnd1     == UxEvent(2, "moveEnd", "c1", <<>>)
EvEnd2     == UxEvent(3, "moveEnd", "c2", <<>>)
EvStartAll == UxEvent(4, "moveStart", "", <<"c1", "c2">>)
EvFlip     == UxEvent(5, "flip", "c2", <<>>)

UxQuiet       == UxState(1, <<>>, <<>>, <<>>, FALSE, 0, <<>>)
UxMoving      == UxState(2, <<"c1">>, <<"c2">>, <<"c1", "c2">>, TRUE, 1,
                         <<EvStart1>>)
UxLanded      == UxState(3, <<"c1", "c2">>, <<"c2">>, <<"c2">>, TRUE, 2,
                         <<EvStart1, EvEnd1, EvFlip>>)
UxGhostSource == UxState(2, <<"c1">>, <<>>, <<"c2">>, FALSE, 1, <<EvEnd1>>)
UxGhostTarget == UxState(3, <<>>, <<"c1", "c2">>, <<"c1">>, TRUE, 0,
                         <<EvEnd2>>)
UxMoveAll     == UxState(2, <<"c1">>, <<"c1">>, <<>>, FALSE, 0,
                         <<EvStartAll>>)

UxStates ==
    {UxQuiet, UxMoving, UxLanded, UxGhostSource, UxGhostTarget, UxMoveAll}

\* What a poll can return: None, any snapshot for get_state and, for
\* get_history_entry(index), a snapshot of an engine that has that entry
\* (its historyCount is above the index).
PollAnswers(m) ==
    {None} \cup {s \in UxStates :
                   m.is_paused => (m.history_index >= 0
                                   /\ s.historyCount > m.history_index)}

\* A pass takes the select and the sleep, and up to the socket timeout more
\* when a send waits for its answer.
Elapses == {PassTime, PassTime + SocketTimeout}

\* UXMonitor() (15-23) at time 0, run() about to enter its loop.
StartMonitor ==
    [at |-> "loop", is_paused |-> FALSE, history_index |-> -1,
     history_count |-> 0, processed_events |-> {}, busy_since |-> 0,
     pending_moves |-> {}, passes |-> 0, busy_from |-> -1,
     last |-> [is_paused |-> FALSE, index |-> -1, count |-> 0, state |-> None,
               pressed |-> "none", commands |-> <<>>, detected |-> FALSE,
               found |-> NoAnomalies, at |-> 0]]

InitMonitor ==
    /\ connection_mode = "socket" /\ app_executable_path = "None"
    /\ rng_seed = NoSeed /\ process = "None"
    /\ action_log = <<>> /\ last_state = EmptyDict /\ results = <<>>
    /\ app = "none" /\ now = 0 /\ crash_files = <<>> /\ repro = NoFile
    /\ pc = "off" /\ scenarios = <<>> /\ repeat_count = RepeatCount
    /\ iteration = 0 /\ idx = 0 /\ exc = "none" /\ propagating = "none"
    /\ steps = 0
    /\ sent = <<>> /\ session_open = FALSE /\ interrupted = FALSE
    /\ pairs = <<>> /\ crash = NoCrash
    /\ PlayerIdle
    /\ SessionIdle
    /\ given = NoGiven /\ result = NoResult /\ full_game = NoFullGame
    /\ engine = NoEngine
    /\ monitor = StartMonitor

\* The start of the engine's present run of busy reports: kept while the
\* live snapshots are busy with delays, taken at the first of them,
\* forgotten (-1) at a live snapshot that is not.
BusyFrom(m, state, t) ==
    IF m.is_paused \/ state = None THEN m.busy_from
    ELSE IF state.isAutomationBusy /\ state.pendingAutomationDelays > 0
    THEN IF m.busy_from = -1 THEN t ELSE m.busy_from
    ELSE -1

\* One pass of the loop of run() (157-202): the poll, the detection, the
\* status display, the key. q leaves the loop (200-201); an exception of
\* detect_anomalies leaves run() through its finally clause (203-204).
MonitorPass(modes, polls, pressable) ==
    /\ monitor.at = "loop" /\ monitor.passes < MaxPasses
    /\ monitor.is_paused \in modes
    /\ \E state \in polls \cap PollAnswers(monitor), pressed \in pressable,
          elapse \in Elapses :
       \E polled \in {AfterPoll(monitor, state, now)} :
       \E new_state \in
            IF polled.raised = "none" /\ pressed = "right"
               /\ OnRight(polled.m, None).commands # <<>>
            THEN UxStates \cup {None} ELSE {None} :
       \E keyed \in {IF polled.raised = "none"
                     THEN AfterKey(polled.m, pressed, new_state)
                     ELSE [m |-> polled.m, commands |-> <<>>]} :
         /\ monitor' =
              [keyed.m EXCEPT
                 !.at = IF polled.raised # "none" THEN "raised"
                        ELSE IF pressed = "q" THEN "quit" ELSE "loop",
                 !.passes = @ + 1,
                 !.busy_from = BusyFrom(monitor, state, now),
                 !.last = [is_paused |-> monitor.is_paused,
                           index |-> polled.m.history_index,
                           count |-> polled.m.history_count,
                           state |-> state,
                           pressed |-> IF polled.raised = "none" THEN pressed
                                       ELSE "none",
                           commands |->
                              <<PollCommand(monitor.is_paused,
                                            monitor.history_index)>>
                                \o keyed.commands,
                           detected |-> polled.detected,
                           found |-> polled.found,
                           at |-> now]]
         /\ now' = now + elapse
    /\ UNCHANGED <<connection_mode, app_executable_path, rng_seed, process,
                   action_log, last_state, results, app, crash_files, repro,
                   runner_vars, hist_vars, player_vars, session_vars,
                   probe_vars>>

Running == Keys \ {"q"}

\* A live pass whose poll is answered.
MonitorObserves == /\ MonitorPass({FALSE}, UxStates, Running)

\* A paused pass whose history query is answered.
MonitorReviews == /\ MonitorPass({TRUE}, UxStates, Running)

\* A pass whose poll fails or has no data.
MonitorPollFails == /\ MonitorPass(BOOLEAN, {None}, Running)

\* A pass in which the operator presses q.
MonitorQuits == /\ MonitorPass(BOOLEAN, UxStates \cup {None}, {"q"})

NextMonitor ==
    \/ MonitorObserves
    \/ MonitorReviews
    \/ MonitorPollFails
    \/ MonitorQuits

SpecMonitor == InitMonitor /\ [][NextMonitor]_vars

---------------------------------------------------------------------------
\* Properties of the scenario runner (checked under Spec)

NonQuery(c) == c.action # "get_state"
LastPair == pairs[Len(pairs)]

\* C1: within one session the ActionLog is exactly the sub-sequence of the
\* commands handed to _send_command whose action is not get_state, in send
\* order (so a get_state command never changes it).
C1_ActionLogIsNonQuerySubsequence ==
    action_log = SelectSeq(sent, NonQuery)

\* C1 witness: two non-query commands and a query have been sent.
C1_Witness ==
    /\ Len(action_log) >= 2
    /\ Len(sent) > Len(action_log)

\* C2: whenever run_tests is between two pairs, past its loops or left, the
\* session of every started pair has been stopped (stop_app has run and no
\* process is owned or alive); once the operator has interrupted, run_tests
\* is only in its finally clause or left, so no further scenario starts.
C2_StopAppOnEveryExitPath ==
    /\ pc \in {"loop", "summary", "returned", "left"} =>
          ~session_open /\ process = "None" /\ app # "alive"
    /\ interrupted => pc \in {"finally", "left"}

\* C2 witness: a cli session that sent a command was interrupted and
\* run_tests was left with the process stopped.
C2_Witness ==
    /\ pc = "left" /\ propagating = "KeyboardInterrupt"
    /\ connection_mode = "cli" /\ Len(sent) > 0 /\ app = "none"

\* The i-th (iteration, scenario) pair in execution order.
PairIteration(i) == ((i - 1) \div Len(scenarios)) + 1
PairName(i)      == scenarios[((i - 1) % Len(scenarios)) + 1]

\* C3 as stated: after run_tests returns, one entry per pair in execution
\* order, PASS exactly when the scenario procedure returned normally and
\* FAIL with the exception's message exactly when it raised.
C3_Original ==
    pc = "returned" =>
       /\ Len(results) = Len(scenarios) * repeat_count
       /\ \A i \in 1..Len(results) :
            /\ results[i][1] = PairIteration(i) /\ results[i][2] = PairName(i)
            /\ results[i][3] = "PASS" <=> pairs[i].body = "returned"
            /\ results[i][3] = "FAIL" <=>
                  pairs[i].body = "raised" /\ results[i][4] = pairs[i].error

\* C3 amended: after run_tests returns, one entry per pair in execution
\* order; the entry is PASS/"Success" exactly when start_app, the seed
\* command, the scenario procedure and the repro save all completed without
\* an exception, and otherwise FAIL with the message of the exception that
\* left the try block.
C3_ResultsFollowTryBlock ==
    pc = "returned" =>
       /\ Len(results) = Len(scenarios) * repeat_count
       /\ Len(pairs) = Len(results)
       /\ \A i \in 1..Len(results) :
            results[i] =
               IF pairs[i].error = "none"
               THEN <<PairIteration(i), PairName(i), "PASS", "Success">>
               ELSE <<PairIteration(i), PairName(i), "FAIL", pairs[i].error>>

\* C3 witness: run_tests returned with a FAIL for a scenario that never ran
\* (start_app raised) followed by a PASS.
C3_Witness ==
    /\ pc = "returned"
    /\ results[1][3] = "FAIL" /\ pairs[1].body = "not_run"
    /\ results[2][3] = "PASS"

\* C4 as stated: whenever the scenario procedure raised, handle_crash has
\* written exactly one crash report whose state field is a state snapshot,
\* fresh or cached.
C4_Original ==
    (pc = "finally" /\ crash.ran /\ LastPair.body = "raised") =>
       /\ crash.written = 1
       /\ crash.source \in {"fresh", "cached"}
       /\ crash.state.status = "ok"

\* C4 amended: handle_crash writes at most one crash report per failure,
\* exactly one unless writing that file fails; its state field holds the
\* get_state response when the fresh fetch returned, the cached state when
\* the fetch failed and a state was cached in this session, and otherwise
\* the "No state cached" text.
C4_CrashReportState ==
    (pc = "finally" /\ crash.ran) =>
       /\ crash.written <= 1
       /\ crash.written = 0 => propagating = "OSError"
       /\ crash.written = 1 =>
            LET name == CrashFileName(scenario_name, now) IN
            /\ name \in DOMAIN crash_files
            /\ crash_files[name].context = scenario_name
            /\ crash_files[name].error_message = LastPair.error
            /\ crash_files[name].last_known_state = crash.state
       /\ crash.source = "fresh" =>
            /\ crash.state \in RunnerReplies
            /\ crash.state.status = "ok" => crash.state = last_state
       /\ crash.source = "cached" =>
            crash.state = last_state /\ last_state.status = "ok"
       /\ crash.source = "none" =>
            crash.state = NoStateCached /\ last_state = EmptyDict

\* C4 witness: a scenario raised with nothing cached, the fetch failed, and
\* the report was written with the "No state cached" text.
C4_Witness ==
    /\ pc = "finally" /\ crash.ran /\ LastPair.body = "raised"
    /\ crash.written = 1 /\ crash.source = "none"

\* C5: after handle_crash has run for a failure that logged commands, the
\* repro file holds the configured seed and the session's ActionLog, whether
\* or not the crash report could be written and the state be captured.
C5_ReproPersistedOnFailure ==
    (pc = "finally" /\ crash.ran /\ action_log # <<>>) =>
       repro = ReproContent(action_log)

\* C6: a crash report or repro file, once written, is never replaced by a
\* later incident or scenario.
C6_NoFileOverwritten ==
    [][ /\ repro # NoFile => repro' = repro
        /\ \A n \in DOMAIN crash_files :
              n \in DOMAIN crash_files' /\ crash_files'[n] = crash_files[n]
      ]_vars

---------------------------------------------------------------------------
\* Properties of the player's loop (SpecPlayer)

ClosedSet ==
    {"ready", "playing", "askingGoStop", "choosingCapture", "askingShake",
     "choosingChrysanthemumRole", "ended"}

\* C7: once a pass has polled a 'playing' snapshot in which the active
\* player's hand is empty, the loop is over: the player sends nothing more,
\* neither a state poll nor an action.
C7_EmptyHandEndsLoop ==
    [][ iter.phase = "empty_hand" => sent' = sent ]_vars

\* The last pass went past the validators to line 374.
ReachedDispatch == iter.phase \in LadderPhases \cup {"no_game_state"}

HasDuplicateId(state) ==
    LET cs == AllCards(state)
    IN  \E i, j \in 1..Len(cs) : i < j /\ cs[i].id = cs[j].id /\ cs[i].id # 0

\* In a snapshot of a started game, some month group does not count four.
SomeMonthNotFour(state) ==
    /\ state.gameState \notin {"ready", "None"}
    /\ \E m \in 1..NumMonths :
          Cardinality({ i \in 1..Len(AllCards(state)) :
                          AllCards(state)[i].month = m }) # CardsPerMonth

FoundDuplicate ==
    "check_duplicate_cards" \in iter.validated /\ HasDuplicateId(iter.polled)

FoundMonthViolation ==
    /\ "validate_monthly_pair_integrity" \in iter.validated
    /\ SomeMonthNotFour(iter.polled)

C10_Original ==
    iter.phase \in LadderPhases
        => {"check_duplicate_cards", "validate_monthly_pair_integrity"}
              \subseteq iter.validated

\* C10: every pass that reached the dispatch ladder has run
\* check_duplicate_cards on the polled snapshot (the cached snapshot carries
\* its zone labels), and has run the monthly validator exactly when
\* debug_level is "high".
C10_ValidatorsBeforeDispatch ==
    iter.phase \in LadderPhases
        => /\ "check_duplicate_cards" \in iter.validated
           /\ last_state = Annotated(iter.polled)
           /\ "validate_monthly_pair_integrity" \in iter.validated
                 <=> debug_level = "high"

C10_Witness ==
    /\ iter.phase \in LadderPhases
    /\ iter.commands # <<>>
    /\ debug_level = "normal"
    /\ iter.validated = {"check_duplicate_cards"}

\* The RuntimeError messages of _send_command (main.py 112, 123, 140, 175).
TransportErrors ==
    { "App is not running.", "App closed unexpectedly.",
      "Failed to parse JSON response", "Socket communication failed" }

\* The pass ended in a transport failure: the state poll raised or came back
\* with a status other than ok, or the send of the game command raised.
TransportFailed(it) ==
    \/ it.phase \in {"poll_failed", "poll_not_ok"}
    \/ it.error \in TransportErrors

\* C11: a pass that ends in a transport failure (failed poll or failed
\* action send) takes the retry sleep and leaves the loop running; the pass
\* that follows a failed one starts with a state poll again, unless the
\* operator has paused the player.
C11_TransportFailureKeepsLoop ==
    [][ /\ TransportFailed(iter')
            => ai_pc' = "loop" /\ iter'.backoff = RetrySleep
        /\ (TransportFailed(iter) /\ iterations' = iterations + 1 /\ ~paused')
            => /\ Len(sent') > Len(sent)
               /\ sent'[Len(sent) + 1] = GetState ]_vars

\* Two failures in a row: the first pass polled and recorded no snapshot, the
\* second polled again and the send of its play_card command failed; the
\* loop is still running.
C11_Witness ==
    /\ iterations = 2 /\ ai_pc = "loop"
    /\ Len(sent) = 3 /\ sent[1] = GetState /\ sent[2] = GetState
    /\ Len(state_history) = 1
    /\ iter.phase = "playing" /\ iter.error = "Socket communication failed"
    /\ iter.backoff = RetrySleep

PlayerActions ==
    { "get_state", "start_game", "play_card", "respond_go_stop",
      "respond_to_capture", "respond_to_shake",
      "respond_to_chrysanthemum_choice", "click_restart_button" }

\* C13 as stated: with a seed configured, the first command the player logs
\* is the set-seed command.
C13_Original ==
    (rng_seed # NoSeed /\ action_log # <<>>) => action_log[1] = SetSeedCommand

\* C13: the player never forwards a seed: whatever rng_seed the agent
\* holds, every command it sends is get_state or one of its game actions,
\* never set_condition.
C13_PlayerSendsNoSeed ==
    \A k \in 1..Len(sent) :
        sent[k].action \in PlayerActions /\ sent[k] # SetSeedCommand

\* A seed is configured and the first logged command is start_game.
C13_Witness ==
    /\ rng_seed # NoSeed
    /\ action_log # <<>> /\ action_log[1] = UserAction("start_game", <<>>)
    /\ sent[1] = GetState

---------------------------------------------------------------------------
\* The seed command of the scenario runner (checked under Spec)

\* The command carries a seed: set_condition({"rng_seed": ...}).
IsSeedCommand(c) ==
    c.action = "set_condition" /\ c.data # <<>> /\ c.data[1] = "rng_seed"

\* C14: with a seed configured, the set-seed command has been sent after
\* start_app by the time the scenario body runs, and it is the first entry
\* of the session's ActionLog whenever the log is not empty; with no seed
\* configured, nothing has been sent when the scenario body begins and no
\* set-seed command is sent by run_tests.
C14_SeedCommandFirst ==
    /\ pc = "seed" => sent = <<>> /\ action_log = <<>> /\ session_open
    /\ (rng_seed # NoSeed /\ pc \in {"body", "save"})
          => /\ sent # <<>> /\ sent[1] = SetSeedCommand
             /\ action_log # <<>>
    /\ (rng_seed # NoSeed /\ action_log # <<>>) => action_log[1] = SetSeedCommand
    /\ (rng_seed = NoSeed /\ pc = "body" /\ steps = 0) => sent = <<>>
    /\ rng_seed = NoSeed => \A k \in 1..Len(sent) : ~IsSeedCommand(sent[k])

\* The second session of a run with a seed: its log begins with the
\* set-seed command, followed by a command of the scenario body.
C14_Witness ==
    /\ rng_seed # NoSeed /\ idx = 2 /\ pc = "save"
    /\ Len(action_log) = 2 /\ action_log[1] = SetSeedCommand
    /\ action_log[2].action = "click_restart_button"

---------------------------------------------------------------------------
\* Properties of the session methods (checked under SpecSession)

\* C15: at most one command is in flight; no call is idle with a command
\* still on the wire, so a command is written only after the response to,
\* or the failure of, the one before it has been observed; and the outcomes
\* are observed in the order the commands were written, none skipped.
C15_OneCommandInFlight ==
    /\ Len(wire) <= 1
    /\ call.at = "idle" => wire = <<>>
    /\ writes = Len(observed) + Len(wire)
    /\ \A k \in 1..Len(observed) : observed[k] = k
    /\ \A k \in 1..Len(wire) : wire[k].id = Len(observed) + k

\* The second command is in flight after the outcome of the first was seen.
C15_Witness ==
    /\ writes = 2 /\ observed = << 1 >>
    /\ Len(wire) = 1 /\ wire[1].id = 2 /\ call.at = "awaiting"

\* C16 (checked under SpecSessionFair): a send that has written its command
\* returns or raises: the call does not wait for ever, whatever the engine
\* does, in both transports.
C16_SendCompletes ==
    (call.at = "awaiting") ~> (call.at = "idle")

\* This step is the read of a get_state command returning an ok response.
OkStateRead ==
    /\ call.at = "awaiting" /\ call'.at = "idle"
    /\ call.command = GetState
    /\ call'.raised = "none" /\ call'.resp.status = "ok"

\* C17 as stated: the cache changes only in the read of a get_state
\* command that returns an ok response.
C17_Original ==
    [][ last_state' # last_state => OkStateRead ]_vars

\* C17: a get_state read that returns an ok response makes that response
\* the cache; apart from that the cache changes only when start_app resets
\* it to empty: every other command, non-ok response and failed send
\* leaves it as it was.
C17_CacheChangesOnOkStateOrStart ==
    [][ /\ OkStateRead => last_state' = call'.resp
        /\ last_state' # last_state
            => \/ OkStateRead
               \/ call'.method = "start_app" /\ calls' = calls + 1
                     /\ last_state' = EmptyDict ]_vars

\* A command other than get_state got an ok response and the cache still
\* holds the earlier snapshot.
C17_Witness ==
    /\ call.method = "_send_command" /\ call.at = "idle"
    /\ call.command # GetState
    /\ call.raised = "none" /\ call.resp.status = "ok"
    /\ last_state = SnapPlaying /\ call.resp # last_state

\* This step is a call of start_app (returning or raising).
StartAppCalled == call'.method = "start_app" /\ calls' = calls + 1

\* C18: every start_app call, whether it returns or raises, leaves the
\* ActionLog and the cache empty, and at any time the ActionLog is exactly
\* the non-query commands handed to _send_command since the most recent
\* start_app call (since construction when there was none).
C18_StartAppResetsLogAndCache ==
    [][ /\ StartAppCalled => action_log' = <<>> /\ last_state' = EmptyDict
        /\ StartAppCalled => sent' = <<>>
        /\ action_log' = SelectSeq(sent', NonQuery) ]_vars

\* Two commands were written, one before and one after a start_app call;
\* the log holds only the later one.
C18_Witness ==
    /\ calls = 3 /\ writes = 2 /\ observed = << 1, 2 >>
    /\ call.method = "_send_command" /\ call.at = "idle"
    /\ Len(sent) = 1
    /\ action_log = << UserAction("click_restart_button", <<>>) >>

\* This step is a call of stop_app.
StopAppCalled == call'.method = "stop_app" /\ calls' = calls + 1

\* C19: every stop_app call, in either mode, with or without a handle,
\* after a start_app or after another stop_app, raises nothing and leaves
\* the agent without a handle. The owned process gets one more terminate()
\* and one more wait(), every other process none; and no process is ever
\* terminated or waited for more than once.
C19_StopAppIdempotent ==
    [][ StopAppCalled =>
          /\ call'.raised = "none"
          /\ process' = "None" /\ owned' = 0
          /\ Len(children') = Len(children)
          /\ \A p \in 1..Len(children) :
                children'[p] = IF p = owned THEN Terminated(children[p])
                               ELSE children[p]
          /\ \A p \in 1..Len(children) :
                children'[p].terminated <= 1 /\ children'[p].waited <= 1
          /\ owned # 0 => /\ children'[owned].terminated = 1
                          /\ children'[owned].waited = 1 ]_vars

\* stop_app called twice in a row on a started program: terminated and
\* waited for once.
C19_Witness ==
    /\ call.method = "stop_app" /\ call.before = "stop_app"
    /\ call.raised = "none"
    /\ Len(children) = 1
    /\ children[1] = [state |-> "terminated", terminated |-> 1, waited |-> 1]
    /\ process = "None" /\ owned = 0

\* The started processes that are running: neither exited nor terminated.
Alive == { p \in 1..Len(children) : children[p].state = "alive" }

\* C20: at most one process started by the agent is alive at any time, and
\* none is alive when the last call was stop_app.
C20_AtMostOneProcessAlive ==
    /\ Cardinality(Alive) <= 1
    /\ (call.method = "stop_app" /\ call.at = "idle") => Alive = {}

---------------------------------------------------------------------------
\* Properties of the validators (checked under SpecValidators)

\* The pending-choice alias fields of a snapshot, as a list of cards.
PendingCards(state) ==
    state.pendingCapturePlayedCard \o state.pendingCaptureDrawnCard
        \o state.pendingChrysanthemumCard

\* The ids of the cards of month m over every zone and the pending fields:
\* each card once.
IdsOfMonth(state, m) ==
    LET cs == AllCards(state) \o PendingCards(state)
    IN  { cs[i].id : i \in { j \in 1..Len(cs) : cs[j].month = m } }

\* The card entries of month m in the table, out-of-play, deck, hand and
\* captured zones: an id occurring twice counts twice.
EntriesOfMonth(state, m) ==
    MonthCount(state.tableCards, m) + MonthCount(state.outOfPlayCards, m)
        + MonthCount(state.deckCards, m)
        + MonthCount(PlayerCards(state.players), m)

\* The card entries of a nonzero month in those zones.
HasMonth(c) == c.month # 0
BaseEntries(state) == Len(SelectSeq(AllCards(state), HasMonth))

MonthlyCalled == result.fn = "validate_monthly_pair_integrity"

DuplicatesCalled == result.fn = "check_duplicate_cards"

\* The zone labels of lines 34-52.
ZoneLabels(state) ==
    {"Table", "OutOfPlay", "Deck"}
        \cup { state.players[i].name \o "_Hand" : i \in 1..Len(state.players) }
        \cup { state.players[i].name \o "_Captured" : i \in 1..Len(state.players) }

\* Some card id occurs under two different zone labels of the walked zones.
IdUnderTwoLabels(state) ==
    LET cs == AllCards(state)
    IN  \E i, j \in 1..Len(cs) :
           /\ cs[i].id # 0 /\ cs[i].id = cs[j].id
           /\ cs[i]._location # cs[j]._location

\* C22 as stated: a violation is reported exactly when some card id occurs
\* under more than one zone label.
C22_Original ==
    DuplicatesCalled =>
       (result.duplicates # <<>> <=> IdUnderTwoLabels(given.state))

\* C22: check_duplicate_cards reports exactly when some card id occurs more
\* than once among the entries of the table, out-of-play, deck, hand and
\* captured zones, in two zones or twice in one; cards without an id and the
\* pending-choice alias fields are never counted. Each message names the
\* id, month and type of a repeated entry, its zone label and the label of
\* the first entry with that id; the messages are written to the error
\* report and nothing is raised.
C22_DuplicateReportedForRepeatedId ==
    DuplicatesCalled =>
       LET cs == AllCards(given.state) IN
       /\ \A i \in 1..Len(cs) : cs[i]._location \in ZoneLabels(given.state)
       /\ result.duplicates # <<>> <=> HasDuplicateId(given.state)
       /\ \A k \in 1..Len(result.duplicates) :
             \E i, j \in 1..Len(cs) :
                /\ i < j /\ cs[i].id = cs[j].id /\ cs[j].id # 0
                /\ \A h \in 1..(i - 1) : cs[h].id # cs[i].id
                /\ result.duplicates[k] =
                      [id |-> cs[j].id, month |-> cs[j].month,
                       type |-> cs[j].type, found_in |-> cs[j]._location,
                       and_in |-> cs[i]._location]
       /\ error_report =
             IF result.duplicates = <<>> THEN <<>>
             ELSE << Report("duplicates", result.duplicates) >>

\* Card 4 is twice in the second player's hand and card 5 of the table is
\* also the pending played card: one message, naming the hand twice.
C22_Witness ==
    /\ DuplicatesCalled
    /\ given.state.pendingCapturePlayedCard = << FullDeck[5] >>
    /\ given.state.outOfPlayCards = <<>>
    /\ result.duplicates =
          << [id |-> 4, month |-> 1, type |-> "junk",
              found_in |-> "P2_Hand", and_in |-> "P2_Hand"] >>

ResultsCalled == result.fn = "validate_game_results"

\* The sum of a player's score items, each counted by its points or, when
\* it has none, by its score.
ComponentSum(items) ==
    LET S[k \in 0..Len(items)] ==
          IF k = 0 THEN 0
          ELSE S[k - 1] + (IF items[k].points # 0 THEN items[k].points
                           ELSE items[k].score)
    IN  S[Len(items)]

\* The players of the last recorded snapshot whose reported score differs
\* from the sum of their score items.
Mismatched ==
    LET players == state_history[Len(state_history)].players
    IN  { i \in 1..Len(players) :
            players[i].score # ComponentSum(players[i].scoreItems) }

\* C23: on an 'ended' snapshot, validate_game_results records one error for
\* each player whose reported score differs from the sum of that player's
\* score items, naming the player, the reported score and the sum, and for
\* no other player; the errors are written to the error report, and when
\* every player's totals agree nothing is recorded.
C23_ScoreErrorsExactlyOnMismatch ==
    (ResultsCalled /\ given.state.gameState = "ended") =>
       LET players == given.state.players IN
       /\ Len(result.errors) = Cardinality(Mismatched)
       /\ \A i \in 1..Len(players) :
             i \in Mismatched <=>
                \E k \in 1..Len(result.errors) :
                   result.errors[k] =
                      [player |-> i - 1, name |-> players[i].name,
                       reported |-> players[i].score,
                       calculated |-> ComponentSum(players[i].scoreItems)]
       /\ error_report =
             IF Mismatched = {} THEN <<>>
             ELSE << Report("scores", result.errors) >>

\* The first player reports 5 with one item of 3 points; the second
\* player's totals agree: one error, for the first player.
C23_Witness ==
    /\ ResultsCalled /\ given.state.gameState = "ended"
    /\ Mismatched = {1}
    /\ result.errors =
          << [player |-> 0, name |-> "P1", reported |-> 5, calculated |-> 3] >>
    /\ Len(error_report) = 1

SelectCalled == result.fn = "select_best_card"

\* The hand positions whose card has a nonzero month that some table card has.
Matching(hand, table_cards) ==
    { i \in 1..Len(hand) :
        /\ hand[i].month # 0
        /\ \E k \in 1..Len(table_cards) : table_cards[k].month = hand[i].month }

\* The hand positions holding a placeholder.
Placeholders(hand) == { i \in 1..Len(hand) : hand[i].month = 0 }

\* i is the least position of S.
IsFirst(i, S) == i \in S /\ \A j \in S : i <= j

\* C30: for a non-empty hand and any table, select_best_card returns the
\* first hand card whose month is nonzero and is the month of some table
\* card; if there is none, the first placeholder of the hand; if there is
\* none either, the first hand card. The card returned is in the hand.
C30_SelectBestCard ==
    SelectCalled =>
       LET hand == given.hand
           matching == Matching(given.hand, given.table_cards)
           card == result.card[1]
       IN  /\ Len(result.card) = 1
           /\ \E i \in 1..Len(hand) : hand[i] = card
           /\ matching # {} =>
                 \E i \in matching : IsFirst(i, matching) /\ card = hand[i]
           /\ (matching = {} /\ Placeholders(hand) # {}) =>
                 \E i \in Placeholders(hand) :
                    IsFirst(i, Placeholders(hand)) /\ card = hand[i]
           /\ (matching = {} /\ Placeholders(hand) = {}) => card = hand[1]

\* A hand of a non-matching card, a placeholder and a matching card, with
\* a placeholder on the table too: the third card is returned.
C30_Witness ==
    /\ SelectCalled
    /\ Len(given.hand) = 3
    /\ given.hand[1].month = 1 /\ given.hand[2].month = 0
    /\ given.hand[3].month = 2
    /\ Len(given.table_cards) = 2
    /\ given.table_cards[1].month = 0 /\ given.table_cards[2].month = 2
    /\ result.card = << given.hand[3] >>

---------------------------------------------------------------------------
\* Properties of the player's loop, continued (SpecPlayer)

\* C25: with a target N > 0, run_continuous_simulation returns only when N
\* game sessions have reached 'ended', each session being counted once
\* however often its 'ended' snapshot is polled; with N = 0 it never
\* returns.
C25_EachSessionCountedOnce ==
    /\ games_completed <= engine.sessions_ended
    /\ ai_pc = "returned" =>
          num_games > 0 /\ engine.sessions_ended >= num_games

\* The game command that answers a polled snapshot.
CommandFor(polled, cmd) ==
    CASE polled.gameState = "ready" -> cmd = UserAction("start_game", <<>>)
      [] polled.gameState = "playing" ->
            /\ cmd.action = "play_card"
            /\ \E c \in Range(polled.players[polled.currentTurnIndex + 1].hand) :
                  cmd.data = <<"month", ToString(c.month), "type", c.type>>
      [] polled.gameState = "askingGoStop" ->
            /\ cmd.action = "respond_go_stop"
            /\ cmd.data \in { <<"isGo", "true">>, <<"isGo", "false">> }
      [] polled.gameState = "choosingCapture" ->
            /\ polled.pendingCaptureOptions # <<>>
            /\ cmd = UserAction("respond_to_capture",
                        <<"id", ToString(polled.pendingCaptureOptions[1].id)>>)
      [] polled.gameState = "askingShake" ->
            /\ polled.pendingShakeMonths # <<>>
            /\ cmd.action = "respond_to_shake"
            /\ SubSeq(cmd.data, 1, 2) =
                  <<"month", ToString(polled.pendingShakeMonths[1])>>
      [] polled.gameState = "choosingChrysanthemumRole" ->
            cmd.action = "respond_to_chrysanthemum_choice"
      [] polled.gameState = "ended" ->
            cmd = UserAction("click_restart_button", <<>>)
      [] OTHER -> FALSE

\* C26: each pass of the player's loop sends at most one command other
\* than its state poll, after the poll, and it is the command of the polled
\* gameState: ready -> start_game, playing -> play_card with a card of the
\* active hand, askingGoStop -> respond_go_stop, choosingCapture ->
\* respond_to_capture with the id of the first offered option, askingShake
\* -> respond_to_shake for the first pending month,
\* choosingChrysanthemumRole -> respond_to_chrysanthemum_choice (and ended
\* -> click_restart_button); no command of another state is sent.
C26_OneCommandOfThePolledState ==
    [][ iterations' = iterations + 1 =>
          /\ Len(iter'.commands) <= 1
          /\ SelectSeq(sent', NonQuery)
                = SelectSeq(sent, NonQuery) \o iter'.commands
          /\ iter'.commands # <<>> =>
                /\ sent' = sent \o << GetState >> \o iter'.commands
                /\ CommandFor(iter'.polled, iter'.commands[1]) ]_vars

\* After a start_game pass, a pass polled two capture options and answered
\* with the id of the first.
C26_Witness ==
    /\ iterations = 2
    /\ iter.polled = SnapCapture /\ Len(SnapCapture.pendingCaptureOptions) = 2
    /\ iter.commands = << UserAction("respond_to_capture", <<"id", "5">>) >>
    /\ Len(action_log) = 2 /\ action_log[1] = UserAction("start_game", <<>>)

\* C27: every pass starts with check_pause: a line of operator input flips
\* the paused flag, no input leaves it; a pass that is paused sends nothing
\* to the engine (no state poll, no action) and records nothing, and a pass
\* that is not paused begins with a state poll. Two toggles therefore
\* restore the running state and polling resumes.
C27_PausedSendsNothing ==
    [][ iterations' = iterations + 1 =>
          /\ paused' = (IF iter'.toggled THEN ~paused ELSE paused)
          /\ paused' => /\ sent' = sent /\ action_log' = action_log
                        /\ state_history' = state_history
                        /\ iter'.phase = "paused"
          /\ ~paused' => /\ Len(sent') > Len(sent)
                         /\ sent'[Len(sent) + 1] = GetState ]_vars

\* The operator toggled twice: the first pass was paused and sent nothing,
\* the second resumed, polled and played a card.
C27_Witness ==
    /\ iterations = 2 /\ iter.toggled /\ ~paused
    /\ iter.phase = "playing"
    /\ Len(sent) = 2 /\ sent[1] = GetState /\ sent[2].action = "play_card"
    /\ Len(state_history) = 1

\* C28: a pass whose polled snapshot reports a count of pending delays
\* above zero records the snapshot and does nothing else, whatever its
\* gameState: no validator runs, no command is sent, no game is counted,
\* nothing is reported, and the loop goes on.
C28_BusySnapshotNoAction ==
    [][ (iterations' = iterations + 1
           /\ iter'.polled.pendingAutomationDelays > 0) =>
          /\ iter'.phase = "busy" /\ iter'.commands = <<>>
          /\ iter'.validated = {}
          /\ sent' = Append(sent, GetState)
          /\ action_log' = action_log
          /\ state_history' = Append(state_history, iter'.polled)
          /\ games_completed' = games_completed
          /\ error_report' = error_report
          /\ ai_pc' = "loop" ]_vars

\* With a target of one game, an 'ended' snapshot with pending delays was
\* polled: the game is not counted and the loop has not returned.
C28_Witness ==
    /\ iter.phase = "busy" /\ iter.polled = SnapBusyEnded
    /\ num_games = 1 /\ games_completed = 0 /\ ai_pc = "loop"
    /\ engine.sessions_ended = 1
    /\ action_log = <<>>

\* The pass polled and got an ok response.
PolledOk(it) == it.phase \notin {"paused", "poll_failed", "poll_not_ok"}

\* The pass issued 'start' from ready or a restart from ended.
IssuedReset(it) ==
    /\ it.commands # <<>>
    /\ it.commands[1].action \in {"start_game", "click_restart_button"}

\* C29 as stated: every state poll adds exactly one entry to the history
\* unless the pass empties it, and the history never holds a snapshot of an
\* earlier session: nothing but 'ended' snapshots follows an 'ended' one.
C29_Original ==
    [][ iterations' = iterations + 1 =>
          /\ sent' # sent =>
                \/ state_history' = <<>>
                \/ Len(state_history') = Len(state_history) + 1
          /\ \A i, j \in 1..Len(state_history') :
                (i < j /\ state_history'[i].gameState = "ended")
                    => state_history'[j].gameState = "ended" ]_vars

\* C29: a pass whose state poll returns an ok response appends that one
\* snapshot to the history; a pass that is paused, or whose poll fails or
\* returns another status, leaves the history as it was. The history is
\* emptied exactly in the passes that issue 'start' from ready or a restart
\* from ended; when the restart is cancelled by the operator it is kept, so
\* the snapshots of the next session follow those of the ended one.
C29_HistoryPerOkPollAndReset ==
    [][ iterations' = iterations + 1 =>
          /\ ~PolledOk(iter') => state_history' = state_history
          /\ (PolledOk(iter') /\ IssuedReset(iter')) => state_history' = <<>>
          /\ (PolledOk(iter') /\ ~IssuedReset(iter')) =>
                /\ Len(state_history') = Len(state_history) + 1
                /\ SubSeq(state_history', 1, Len(state_history)) = state_history
                /\ state_history'[Len(state_history')]
                      \in {iter'.polled, Annotated(iter'.polled)} ]_vars

\* The operator cancelled the restart of an ended session; the next poll
\* found a game being played, and the history holds both snapshots.
C29_Witness ==
    /\ iterations = 2 /\ iter.phase = "playing"
    /\ Len(state_history) = 2
    /\ state_history[1].gameState = "ended"
    /\ state_history[2].gameState = "playing"
    /\ engine.sessions_ended = 1 /\ ~engine.at_end

---------------------------------------------------------------------------
\* Properties of the always-Go full-game scenario (SpecFullGame)

\* The distinct ids of the cards that are not placeholders, over every zone
\* and the pending card fields.
UniqueRealIds(state) ==
    LET cs == AllCards(state) \o PendingCards(state)
    IN  { cs[i].id : i \in { j \in 1..Len(cs) : cs[j].type # "dummy" } }

\* The state polls among the commands sent.
PollsSent(commands) == Len(commands) - Len(SelectSeq(commands, NonQuery))

\* C24: the always-Go full-game scenario polls at most 200 times; it leaves
\* its loop normally only in a pass that observed 'ended'; every snapshot it
\* polls has 48 distinct non-placeholder card ids over all zones and
\* pending fields, or the scenario fails at that snapshot with the card
\* integrity violation; and when 200 passes have gone by without 'ended'
\* the scenario fails.
C24_FullGameBounded ==
    [][ /\ full_game'.step_count <= max_steps
        /\ PollsSent(sent') <= max_steps
        /\ PollsSent(sent') \in {full_game'.step_count, full_game'.step_count + 1}
        /\ pc' = "save" =>
              /\ full_game'.at = "returned"
              /\ full_game'.polled.gameState = "ended"
        /\ full_game'.polled # EmptyDict =>
              (Cardinality(UniqueRealIds(full_game'.polled)) # TotalCards
                  <=> (pc' = "except" /\ exc' = "Card integrity violation"))
        /\ (full_game.at = "loop" /\ full_game.step_count = max_steps) =>
              /\ pc' = "except"
              /\ exc' = "Game did not end within max_steps"
              /\ sent' = sent ]_vars

\* The engine went round its choice states for 200 passes and never showed
\* 'ended': the scenario failed after its 200th pass.
C24_Witness ==
    /\ pc = "except" /\ exc = "Game did not end within max_steps"
    /\ full_game.step_count = max_steps
    /\ PollsSent(sent) = max_steps
    /\ engine.script = "choices"
    /\ full_game.polled = SnapChrysanthemum

---------------------------------------------------------------------------
\* C31. In socket mode every send creates exactly one socket, and the
\* connection it made is closed by the time the send has returned or
\* raised: whenever no send is in progress, no socket is still connected.
\* (Refuted by the timeout path: recv raises at 156 and 174-175 re-raise
\* without s.close().)
C31_ConnectionClosedWithCall ==
    connection_mode = "socket" =>
        /\ \A i, j \in 1..Len(sockets) :
              sockets[i].by = sockets[j].by => i = j
        /\ call.method = "_send_command" =>
              /\ sockets # <<>>
              /\ sockets[Len(sockets)].by = calls
        /\ call.at = "idle" =>
              \A i \in 1..Len(sockets) : sockets[i].state # "connected"

---------------------------------------------------------------------------
\* C32. When a scenario of run_tests has completed, passing (241-243) or
\* failing (248-249), with every file written that the code tried to write,
\* the repro file holds the configured seed and, as its sequence, the
\* ActionLog of that scenario's session; it never holds the sequence of an
\* earlier scenario. (Refuted: with an empty ActionLog line 98 skips the
\* write and the file of the scenario before stays.)
C32_ReproHoldsThisScenario ==
    (pc = "finally" /\ propagating = "none") =>
        /\ repro.sequence = action_log
        /\ repro # NoFile => repro.seed = rng_seed

---------------------------------------------------------------------------
\* Properties of the UX monitor (checked under SpecMonitor)

BusyWithDelays(state) ==
    state.isAutomationBusy /\ state.pendingAutomationDelays > 0

\* C33. An animation hang is flagged only when the engine has reported
\* busy with a nonzero pending-delay count for longer than the 5-second
\* threshold: the snapshot is busy with delays and the first report of the
\* present busy run is more than the threshold old, also right after a
\* pause or after failed polls; and every observed snapshot that is not
\* busy with delays resets the busy-since timestamp. (Refuted: the
\* timestamp is the time of the last snapshot that was not busy, or of the
\* construction, however long ago the monitor last looked.)
C33_HangOnlyAfterThreshold ==
    (monitor.at # "off" /\ monitor.last.detected) =>
        /\ monitor.last.found.hang =>
              /\ BusyWithDelays(monitor.last.state)
              /\ monitor.busy_from # -1
              /\ monitor.last.at - monitor.busy_from > HangThreshold
        /\ ~BusyWithDelays(monitor.last.state) =>
              monitor.busy_since = monitor.last.at


\* What the event log of a snapshot asks for, event by event from entry i
\* on: an event whose id was seen before is passed over; a moveStart puts
\* its move (its card id, or its list of card ids) in flight; a moveEnd
\* takes a move in flight out, and is an orphan when its move is not in
\* flight.
RECURSIVE MovesAfter(_, _, _)
MovesAfter(ux_logs, i, acc) ==
    IF i > Len(ux_logs) THEN acc
    ELSE IF ux_logs[i].id \in acc.seen
    THEN MovesAfter(ux_logs, i + 1, acc)
    ELSE LET move  == card_id(ux_logs[i].data)
             start == ux_logs[i].type = "moveStart"
             end   == ux_logs[i].type = "moveEnd"
         IN
         MovesAfter(ux_logs, i + 1,
            [seen |-> acc.seen \cup {ux_logs[i].id},
             in_flight |-> IF start THEN acc.in_flight \cup {move}
                           ELSE IF end THEN acc.in_flight \ {move}
                           ELSE acc.in_flight,
             orphans |-> IF end /\ move \notin acc.in_flight
                         THEN Append(acc.orphans, ux_logs[i].id)
                         ELSE acc.orphans])

\* C34. Across the polls every UI event id is processed at most once; a
\* moveStart records its move as in flight, a moveEnd with a matching move
\* in flight removes it, and an orphan is flagged exactly for a moveEnd
\* without one. (Refuted by an event that names its cards under cardIds:
\* the list cannot be a dictionary key and line 115 or 118 raises.)
C34_EventsOnceAndMovesTracked ==
    [][ (monitor'.at # "off" /\ monitor' # monitor /\ monitor'.last.detected) =>
          LET validated == monitor'.last.found.validated
              asked == MovesAfter(monitor'.last.state.uxEventLogs, 1,
                          [seen |-> monitor.processed_events,
                           in_flight |-> monitor.pending_moves,
                           orphans |-> <<>>])
          IN
          /\ \A i \in 1..Len(validated) :
                /\ validated[i] \notin monitor.processed_events
                /\ \A j \in 1..Len(validated) : validated[i] = validated[j] => i = j
          /\ monitor.processed_events \subseteq monitor'.processed_events
          /\ monitor'.processed_events = asked.seen
          /\ monitor'.pending_moves = asked.in_flight
          /\ monitor'.last.found.orphans = asked.orphans
      ]_vars


\* The commands of a pass other than its poll.
Besides(commands) == Tail(commands)

\* C35. The controls of a pass, on the index and the count as they are
\* when the key is read. Paused: Right below the last entry steps the view
\* forward by one and sends nothing; Right at the last entry
\* (history_count - 1) sends step_next_turn, and step_next_turn is sent in
\* no other case; Left steps back by one above 0 and never takes an index
\* that is not negative below 0. Live: neither key changes the index or
\* sends anything.
C35_AdvanceAndBackControls ==
    [][ (monitor'.at # "off" /\ monitor' # monitor) =>
          LET it     == monitor'.last
              edge   == it.count - 1
              besides == Besides(it.commands)
              forced == \E i \in 1..Len(besides) : besides[i] = StepNextTurn
          IN
          /\ forced <=> (it.is_paused /\ it.pressed = "right" /\ it.index = edge)
          /\ (it.is_paused /\ it.pressed = "right" /\ it.index < edge) =>
                /\ monitor'.history_index = it.index + 1
                /\ besides = <<>>
          /\ (it.is_paused /\ it.pressed = "right") => it.index <= edge
          /\ it.pressed = "left" =>
                /\ besides = <<>>
                /\ monitor'.history_index =
                      IF it.is_paused /\ it.index > 0 THEN it.index - 1
                      ELSE it.index
                /\ it.index >= 0 => monitor'.history_index >= 0
          /\ (~it.is_paused /\ it.pressed \in {"left", "right"}) =>
                /\ monitor'.history_index = it.index
                /\ besides = <<>>
      ]_vars

\* C35 witness: paused at the last entry (index 2 of 3) Right forced the
\* next turn, and the view moved to the new last entry of the answer.
C35_Witness ==
    /\ monitor.at = "loop" /\ monitor.last.is_paused
    /\ monitor.last.pressed = "right"
    /\ monitor.last.index = 1 /\ monitor.last.count = 2
    /\ monitor.last.commands = <<get_history_entry(1), StepNextTurn, GetState>>
    /\ monitor.history_count = 3 /\ monitor.history_index = 2


\* What C36 says of a pass, with the commands a paused pass may send
\* besides its history query given as allowed.
CooperativePause(allowed) ==
    (monitor'.at # "off" /\ monitor' # monitor) =>
        LET it      == monitor'.last
            besides == Besides(it.commands)
        IN
        /\ it.pressed = "enter" =>
              /\ besides = <<>>
              /\ monitor'.is_paused = ~it.is_paused
        /\ it.is_paused =>
              /\ it.commands[1] = get_history_entry(monitor.history_index)
              /\ besides \in allowed
              /\ besides # <<>> =>
                    it.pressed = "right" /\ it.index = it.count - 1
              /\ ~it.detected /\ it.found = NoAnomalies
              /\ monitor'.processed_events = monitor.processed_events
              /\ monitor'.pending_moves = monitor.pending_moves
              /\ monitor'.busy_since = monitor.busy_since

\* C36 as stated: while paused the monitor issues only history-entry
\* queries, plus step_next_turn on an explicit advance at the last entry.
C36_Original == [][CooperativePause({<<>>, <<StepNextTurn>>})]_vars

\* C36. Pause is cooperative: the pass in which Enter toggles the mode
\* sends nothing besides its poll; a paused pass polls with
\* get_history_entry(history_index), runs no anomaly detection (nothing is
\* flagged, the processed events, the in-flight moves and the busy-since
\* timestamp stay) and sends nothing more, except that Right at the last
\* entry sends step_next_turn followed by one get_state.
C36_PauseIsCooperative ==
    [][CooperativePause({<<>>, <<StepNextTurn, GetState>>})]_vars

\* C36 witness: pause is held; the history entry shown has a hidden card
\* that is not moving and an unprocessed moveEnd, and nothing is detected.
C36_Witness ==
    /\ monitor.at = "loop" /\ monitor.last.is_paused /\ monitor.is_paused
    /\ monitor.last.pressed = "none"
    /\ monitor.last.state = UxGhostSource
    /\ monitor.last.commands = <<get_history_entry(1)>>
    /\ ~monitor.last.detected
    /\ EvEnd1.id \notin monitor.processed_events


\* C37. In every live pass whose poll is answered a ghosting anomaly is
\* logged for the source side exactly when some id of
\* hiddenInSourceCardIds is not in currentMovingCardIds of the same
\* snapshot, and for the target side likewise with hiddenInTargetCardIds;
\* the ids logged are those ids. A snapshot whose hidden ids are all
\* moving logs none.
C37_GhostingExactlyForHiddenNotMoving ==
    (monitor.at # "off" /\ monitor.last.detected) =>
        LET snapshot == monitor.last.state
            moving   == Range(snapshot.currentMovingCardIds)
            src      == Range(snapshot.hiddenInSourceCardIds)
            tgt      == Range(snapshot.hiddenInTargetCardIds)
            logged   == monitor.last.found
        IN
        /\ logged.ghost_source = {c \in src : c \notin moving}
        /\ logged.ghost_target = {c \in tgt : c \notin moving}
        /\ (logged.ghost_source # {} \/ logged.ghost_target # {})
              <=> (\E c \in src \cup tgt : c \notin moving)
        /\ (src \cup tgt) \subseteq moving =>
              logged.ghost_source = {} /\ logged.ghost_target = {}

\* C37 witness: of two cards hidden in the target one is moving and one is
\* not; the one that is not is logged as a ghost, the source side is clean.
C37_Witness ==
    /\ monitor.at = "loop" /\ monitor.last.detected
    /\ monitor.last.state = UxGhostTarget
    /\ monitor.last.found.ghost_target = {"c2"}
    /\ monitor.last.found.ghost_source = {}

\* A snapshot whose hidden cards are all moving logs no ghost.
C37_WitnessAllMoving ==
    /\ monitor.at = "loop" /\ monitor.last.detected
    /\ monitor.last.state = UxMoving
    /\ monitor.last.found.ghost_target = {}
    /\ monitor.last.found.ghost_source = {}

---------------------------------------------------------------------------
\* C38. Every command in the ActionLog was written to the transport: a
\* step that adds a command to the log also writes that command (to the
\* pipe, or to a connected socket), so a send that fails before the write
\* adds nothing. (Refuted: the command is logged at 107-108, before the
\* handle is tested at 111 and before connect at 148.)
C38_LoggedMeansWritten ==
    [][ (action_log' # action_log /\ action_log' # <<>>) =>
          /\ writes' = writes + 1
          /\ wire' # <<>>
          /\ wire'[Len(wire')].command = action_log'[Len(action_log')]
      ]_vars

---------------------------------------------------------------------------
\* C39. Running the validators leaves the polled snapshot as it was: after
\* a pass of the player that ran them, the last-known-state cache and the
\* last entry of StateHistory are, field for field, the snapshot the engine
\* returned. (Refuted: add_cards of check_duplicate_cards writes a
\* _location key into every card of the one snapshot object, lines 33-35.)
C39_ValidatorsLeaveSnapshot ==
    (ai_pc # "off" /\ iter.validated # {}) =>
        /\ last_state = iter.polled
        /\ state_history # <<>> =>
              state_history[Len(state_history)] = iter.polled

---------------------------------------------------------------------------
\* C40. The three monthly-pair audits accept the same snapshots: for every
\* snapshot whose gameState is not ready, AIPlayer's validator, the audit
\* of scenario_verify_monthly_pair_integrity and the validation of
\* inspect_state agree on whether the 12 x 4 accounting holds, snapshots
\* with a pending-choice card and with placeholder cards included.
\* (Refuted: the three differ in the pending fields they count and in
\* whether a card seen twice counts twice.)
C40_MonthlyAuditsAgree ==
    (result.fn = "monthly_audits"
        /\ given.state.gameState \notin {"ready", "None"}) =>
        /\ result.accepts[1] = result.accepts[2]
        /\ result.accepts[2] = result.accepts[3]

===========================================================================
